---- MODULE Spec2Model ----
(***************************************************************************)
(* A model of the QDT datagram tunnel (dm-vev/qdt): the receive replay     *)
(* window and AEAD cipher state, the tunnel codec with its fragment        *)
(* reassembler, the IPAM address pool, and the gateway's sessions,         *)
(* session table and handshake handler.                                    *)
(*                                                                         *)
(* Each component has its own specification over the shared variables;     *)
(* a specification leaves the variables of the other components alone.    *)
(***************************************************************************)
EXTENDS Integers, Sequences, FiniteSets, TLC

(***************************************************************************)
(* Sizes.  Counters are 64 bits wide in the program; the model keeps the   *)
(* wrap-around at a narrower width.                                        *)
(***************************************************************************)
CounterModulus == 256
ReplaySize == 66
WordBits == 64

VARIABLES
    recvWin,     \* the receive cipher state's ReplayWindow
    accepts,     \* history: per counter, how many Open calls returned plaintext
                 \* (for a window driven by Mark alone: whether it was marked)
    lastOpen,    \* history: the last Open call and its result
    pool,        \* the IPAM Pool: base, max, next, used, reserved
    held,        \* history: per address, Acquire returns not yet released
    lastPool,    \* history: the last Pool call and its result
    shards,      \* sessionTable: per shard, the map byIP from address to session
    activeSessions, \* Server.activeSessions
    hs,          \* per connectHandler call: its position and locals
    sess,        \* per session: ip4, closeOnce, closed, lastSeen
    loops,       \* per session and loop: the loop's position
    sweep,       \* sessionSweepLoop: position, now, snapshot list
    now,         \* the clock
    hist,        \* history per handshake: closes of the done channel, callback
                 \* calls, Release calls by path, the address acquired, whether
                 \* the session was ever added, whether it is added and not removed
    reasm,       \* a Reassembler: ttl, maxEntries, maxTotal, frags, lastSweep
    clock,       \* time.Now() of the datagram path
    run,         \* history: per fragment id, the segments pushed so far
    lastPush,    \* history: the last Push call and its result
    sender,      \* the sending tunnel: mtu, Send.sendCounter, Frag.nextID
    wire,        \* datagrams sent; the network may repeat or lose them
    sent,        \* history: the packets encoded and their datagrams
    fed,         \* history: the datagrams given to DecodeDatagramInto
    tunWriteCh,  \* Server.tunWriteCh
    recvOutcome, \* history: how the last round of recvLoop ended
    sendCh,      \* Session.sendCh
    dgCh,        \* Session.dgCh
    enc,         \* each encodeLoop worker: its place and its locals
    sendClosed,  \* Session.closed is closed
    closeErr,    \* the error of the Close call that closed the session
    loopCtl,     \* a session's stream context (done or not), the positions of
                 \* its recvLoop and sendLoop, and sendLoop's batch index
    pump,        \* the client's PumpConnToTunBuffered: running, its error
    packetPool,  \* Server.packetPool: how many times each buffer is in it
    lastRound,   \* history: the last round of tunReadLoop or recvLoop that
                 \* took a buffer, and what it did with the buffer
    hsLimit,     \* Server.hsLimit: the global bucket, the per-host entries
                 \* and the time of the last sweep
    cfg,         \* Server.cfg: MTU and MaxSessions
    issued,      \* history: the values NextCounter returned, in order
    sealed       \* history: how many datagrams were sealed per key and nonce

replayVars == <<recvWin, accepts, lastOpen>>
ipamVars == <<pool, held, lastPool>>
gatewayVars == <<shards, activeSessions, hs, sess, loops, sweep, now, hist>>
reasmVars == <<reasm, clock, run, lastPush>>
tunnelVars == <<sender, wire, sent, fed, tunWriteCh, recvOutcome>>
closedVars == <<sendClosed, closeErr>>
queueVars == <<sendCh, dgCh, enc, issued, sealed>>
sendVars == <<queueVars, closedVars>>
clientVars == <<pump, loopCtl, packetPool, lastRound, hsLimit, cfg>>
dataVars == <<reasmVars, tunnelVars, sendVars, clientVars>>

vars == <<recvWin, accepts, lastOpen, pool, held, lastPool,
          shards, activeSessions, hs, sess, loops, sweep, now, hist,
          reasm, clock, run, lastPush,
          sender, wire, sent, fed, tunWriteCh, recvOutcome,
          sendCh, dgCh, enc, sendClosed, closeErr, issued, sealed, pump, loopCtl, packetPool, lastRound, hsLimit, cfg>>

(***************************************************************************)
(* Replay window                                                           *)
(***************************************************************************)
Words(size) == (size + (WordBits - 1)) \div WordBits

\* A word of the bitmap is the set of its bit positions that are 1.
ShiftLeft(word, n) == {b + n : b \in word} \cap (0 .. (WordBits - 1))
ShiftRight(word, n) == {b - n : b \in {x \in word : x >= n}}

NewReplayWindow(size) ==
    LET sz == IF size = 0 THEN 1024 ELSE size
    IN  [size |-> sz, max |-> 0, initialized |-> FALSE,
         bits |-> [i \in 0 .. (Words(sz) - 1) |-> {}]]

isSet(w, offset) == (offset % WordBits) \in w.bits[offset \div WordBits]

set(w, offset) ==
    [w EXCEPT !.bits[offset \div WordBits] = @ \cup {offset % WordBits}]

shift(w, delta) ==
    IF delta >= w.size
    THEN [w EXCEPT !.bits = [i \in DOMAIN w.bits |-> {}]]
    ELSE LET n == Words(w.size)
             wordShift == delta \div WordBits
             bitShift == delta % WordBits
             b1 == IF wordShift > 0
                   THEN [i \in 0 .. (n - 1) |->
                            IF i - wordShift >= 0 THEN w.bits[i - wordShift] ELSE {}]
                   ELSE w.bits
             b2 == IF bitShift > 0
                   THEN [i \in 0 .. (n - 1) |->
                            ShiftLeft(b1[i], bitShift) \cup
                            (IF i > 0 THEN ShiftRight(b1[i - 1], WordBits - bitShift)
                                      ELSE {})]
                   ELSE b1
             maskBits == w.size % WordBits
             b3 == IF maskBits # 0
                   THEN [b2 EXCEPT ![n - 1] = @ \cap (0 .. (maskBits - 1))]
                   ELSE b2
         IN  [w EXCEPT !.bits = b3]

Check(w, counter) ==
    IF ~w.initialized THEN TRUE
    ELSE IF (counter + w.size) % CounterModulus <= w.max THEN FALSE
    ELSE IF counter > w.max THEN TRUE
    ELSE ~isSet(w, w.max - counter)

\* Mark as it would be with the new anchor's own bit left clear.
MarkWithoutAnchorBit(w, counter) ==
    IF ~w.initialized
    THEN [w EXCEPT !.max = counter, !.initialized = TRUE]
    ELSE IF counter > w.max
    THEN [shift(w, counter - w.max) EXCEPT !.max = counter]
    ELSE IF w.max - counter < w.size
    THEN set(w, w.max - counter)
    ELSE w

Mark(w, counter) ==
    IF ~w.initialized
    THEN set([w EXCEPT !.max = counter, !.initialized = TRUE], 0)
    ELSE IF counter > w.max
    THEN set([shift(w, counter - w.max) EXCEPT !.max = counter], 0)
    ELSE IF w.max - counter < w.size
    THEN set(w, w.max - counter)
    ELSE w

(***************************************************************************)
(* AEAD cipher state.  ChaCha20-Poly1305 is modelled symbolically: a       *)
(* ciphertext records the key, nonce and associated data it was sealed     *)
(* under, and opens only under the same three.                             *)
(***************************************************************************)
nonce(c, counter) == <<c.noncePrefix, counter>>

Seal(c, counter, aad, plaintext) ==
    [key |-> c.key, nonce |-> nonce(c, counter), aad |-> aad, pt |-> plaintext]

AeadOpen(c, counter, aad, ciphertext) ==
    /\ ciphertext.key = c.key
    /\ ciphertext.nonce = nonce(c, counter)
    /\ ciphertext.aad = aad

\* An Open that marks the counter before it verifies the tag.
OpenMarkingFirst(c, w, counter, aad, ciphertext) ==
    IF ~Check(w, counter)
    THEN [err |-> "replay", pt |-> <<>>, win |-> w]
    ELSE IF ~AeadOpen(c, counter, aad, ciphertext)
    THEN [err |-> "auth", pt |-> <<>>, win |-> Mark(w, counter)]
    ELSE [err |-> "nil", pt |-> ciphertext.pt, win |-> Mark(w, counter)]

\* CipherState.Open on the receive state c whose replay window is w: the
\* result, the plaintext and the window afterwards.
Open(c, w, counter, aad, ciphertext) ==
    IF ~Check(w, counter)
    THEN [err |-> "replay", pt |-> <<>>, win |-> w]
    ELSE IF ~AeadOpen(c, counter, aad, ciphertext)
    THEN [err |-> "auth", pt |-> <<>>, win |-> w]
    ELSE [err |-> "nil", pt |-> ciphertext.pt, win |-> Mark(w, counter)]

(***************************************************************************)
(* IPAM pool.  Addresses are the 32-bit big-endian values of the code;     *)
(* the pool's range ends below the broadcast address, so candidate + 1     *)
(* never wraps.                                                            *)
(***************************************************************************)
RECURSIVE Pow2(_)
Pow2(n) == IF n = 0 THEN 1 ELSE 2 * Pow2(n - 1)

PoolNetwork == 168296448
PoolPrefixLen == 29
GatewayIP == 168296449

\* New(cidr, reserve) for the IPv4 CIDR ip/prefixLen; first as it would be
\* with the caller's reserve list left out of the reserved map.
NewIgnoringReserve(ip, prefixLen, reserve) ==
    LET hostSize == Pow2(32 - prefixLen)
        netUint == ip - (ip % hostSize)
        broadcast == netUint + (hostSize - 1)
    IN  IF broadcast - netUint < 3
        THEN [err |-> "cidr too small", pool |-> <<>>]
        ELSE [err |-> "nil",
              pool |-> [base |-> netUint + 1, max |-> broadcast - 1,
                        next |-> netUint + 1, used |-> {},
                        reserved |-> {netUint, broadcast}]]

New(ip, prefixLen, reserve) ==
    LET hostSize == Pow2(32 - prefixLen)
        netUint == ip - (ip % hostSize)
        broadcast == netUint + (hostSize - 1)
    IN  IF broadcast - netUint < 3
        THEN [err |-> "cidr too small", pool |-> <<>>]
        ELSE [err |-> "nil",
              pool |-> [base |-> netUint + 1, max |-> broadcast - 1,
                        next |-> netUint + 1, used |-> {},
                        reserved |-> reserve \cup {netUint, broadcast}]]

\* The candidate as it would be if the search started at base every time.
CandidateFromBase(p, i) == p.base + (i % (p.max - p.base + 1))

Candidate(p, i) == p.base + ((p.next - p.base + i) % (p.max - p.base + 1))

\* Acquire as it would be without the test of the used set.
AcquireIgnoringUsed(p) ==
    LET span == p.max - p.base + 1
        free == {i \in 0 .. (span - 1) : Candidate(p, i) \notin p.reserved}
        first == CHOOSE i \in free : \A j \in free : i <= j
    IN  IF free = {}
        THEN [err |-> "address pool exhausted", ip |-> 0, pool |-> p]
        ELSE [err |-> "nil", ip |-> Candidate(p, first),
              pool |-> [p EXCEPT !.used = @ \cup {Candidate(p, first)},
                                 !.next = Candidate(p, first) + 1]]

Acquire(p) ==
    LET span == p.max - p.base + 1
        free == {i \in 0 .. (span - 1) :
                    /\ Candidate(p, i) \notin p.used
                    /\ Candidate(p, i) \notin p.reserved}
        first == CHOOSE i \in free : \A j \in free : i <= j
    IN  IF free = {}
        THEN [err |-> "address pool exhausted", ip |-> 0, pool |-> p]
        ELSE [err |-> "nil", ip |-> Candidate(p, first),
              pool |-> [p EXCEPT !.used = @ \cup {Candidate(p, first)},
                                 !.next = Candidate(p, first) + 1]]

\* Release as it would be if it also moved the cursor back to the address.
ReleaseMovingCursor(p, ip) == [p EXCEPT !.used = @ \ {ip}, !.next = ip]

Release(p, ip) == [p EXCEPT !.used = @ \ {ip}]

(***************************************************************************)
(* Session table                                                           *)
(***************************************************************************)
SessionShards == 1

newSessionTable(n) ==
    [i \in 0 .. ((IF n <= 0 THEN 64 ELSE n) - 1) |-> <<>>]

shard(t, ip) == ip % Cardinality(DOMAIN t)

\* A Go map is a function on its keys.
MapSet(m, k, v) == [x \in (DOMAIN m) \cup {k} |-> IF x = k THEN v ELSE m[x]]
MapDelete(m, k) == [x \in (DOMAIN m) \ {k} |-> m[x]]

Add(t, s, ip) == [t EXCEPT ![shard(t, ip)] = MapSet(@, ip, s)]

Remove(t, ip) == [t EXCEPT ![shard(t, ip)] = MapDelete(@, ip)]

GetByIP(t, ip) ==
    IF ip \in DOMAIN t[shard(t, ip)] THEN t[shard(t, ip)][ip] ELSE 0

(***************************************************************************)
(* Byte strings.  A []byte is a sequence of numbers below 256; b[lo:hi] is *)
(* Slice(b, lo, hi).                                                       *)
(***************************************************************************)
Slice(b, lo, hi) == SubSeq(b, lo + 1, hi)

\* binary.BigEndian.PutUint32 / PutUint64: the n bytes of x, high byte first
RECURSIVE BigEndian(_, _)
BigEndian(x, n) ==
    IF n = 0 THEN <<>> ELSE Append(BigEndian(x \div 256, n - 1), x % 256)

\* binary.BigEndian.Uint32 / Uint64 of the n bytes of b from index lo
RECURSIVE Uint(_, _, _)
Uint(b, lo, n) ==
    IF n = 0 THEN 0 ELSE 256 * Uint(b, lo, n - 1) + b[lo + n]

(***************************************************************************)
(* Fragment header and reassembler (ordered segment list).                 *)
(***************************************************************************)
fragHeaderLen == 12
DefaultMaxReassembly == 65535
DefaultTtl == 5
DefaultMaxEntries == 1024

\* The zero time.Time: so far in the past that every ttl has elapsed.
ZeroTime == 0 - DefaultMaxReassembly

WriteFragmentHeader(id, offset, total) ==
    BigEndian(id, 4) \o BigEndian(offset, 4) \o BigEndian(total, 4)

DecodeFragmentHeader(b) ==
    IF Len(b) < fragHeaderLen
    THEN [err |-> "fragment payload too small", id |-> 0, offset |-> 0,
          total |-> 0, payload |-> <<>>]
    ELSE [err |-> "nil", id |-> Uint(b, 0, 4),
          offset |-> Uint(b, 4, 4), total |-> Uint(b, 8, 4),
          payload |-> Slice(b, fragHeaderLen, Len(b))]

NewReassembler(ttl, maxEntries, maxTotal) ==
    [ttl |-> IF ttl <= 0 THEN DefaultTtl ELSE ttl,
     maxEntries |-> IF maxEntries <= 0 THEN DefaultMaxEntries ELSE maxEntries,
     maxTotal |-> IF maxTotal <= 0 THEN DefaultMaxReassembly ELSE maxTotal,
     frags |-> <<>>,
     lastSweep |-> ZeroTime]

\* sweepLocked at time t
sweepLocked(r, t) ==
    IF t - r.lastSweep < r.ttl
    THEN r
    ELSE [r EXCEPT
            !.frags = [id \in {i \in DOMAIN r.frags :
                                  ~(t - r.frags[i].updatedAt > r.ttl)}
                          |-> r.frags[id]],
            !.lastSweep = t]

\* assemble: the buffer if the sorted segments tile [0, total)
assemble(state) ==
    LET segs == state.segments
        n == Len(segs)
    IN  IF state.received # state.total
        THEN [out |-> <<>>, err |-> "incomplete reassembly"]
        ELSE IF \E i \in 1 .. n :
                   segs[i].start # (IF i = 1 THEN 0 ELSE segs[i - 1].end)
        THEN [out |-> <<>>, err |-> "fragment gap"]
        ELSE IF (IF n = 0 THEN 0 ELSE segs[n].end) # state.total
        THEN [out |-> <<>>, err |-> "fragment size mismatch"]
        ELSE [out |-> state.buf, err |-> "nil"]

\* A search that always answers len(segs).
SearchEnd(segs, off) == Len(segs)

\* sort.Search(len(segs), segs[i].start >= off): the least such index
SearchStart(segs, off) ==
    CHOOSE i \in 0 .. Len(segs) :
        /\ \A j \in 1 .. i : segs[j].start < off
        /\ i < Len(segs) => segs[i + 1].start >= off

\* A copy that ignores the fragment's offset.
CopyAtStart(buf, off, payload) ==
    [i \in 1 .. Len(buf) |-> IF i <= Len(payload) THEN payload[i] ELSE buf[i]]

\* copy(buf[off:off+len(payload)], payload)
CopyInto(buf, off, payload) ==
    [i \in 1 .. Len(buf) |->
        IF off < i /\ i <= off + Len(payload) THEN payload[i - off] ELSE buf[i]]

\* The entry after a segment [off, end) has been stored at index idx.
StoreSegment(state, idx, off, payload, t) ==
    [state EXCEPT
        !.buf = CopyInto(@, off, payload),
        !.segments = SubSeq(@, 1, idx)
                        \o <<[start |-> off, end |-> off + Len(payload)]>>
                        \o SubSeq(@, idx + 1, Len(@)),
        !.received = @ + Len(payload),
        !.updatedAt = t]

\* The tail of Push once the segment is stored: nothing yet, or what
\* assemble gives and the entry dropped.
Finish(r, id, state) ==
    IF state.received < state.total
    THEN [out |-> <<>>, err |-> "nil",
          r |-> [r EXCEPT !.frags = MapSet(@, id, state)]]
    ELSE [out |-> assemble(state).out, err |-> assemble(state).err,
          r |-> [r EXCEPT !.frags = MapDelete(@, id)]]

\* Push from the segment list on, state being the id's entry (a new one
\* is in the table by now).  A copy past the end of the entry's buffer is
\* the run-time panic "slice bounds out of range".  First as it would be
\* without the test against the segment that follows.
PushSegmentPredecessorOnly(r, t, h, state) ==
    LET off == h.offset
        idx == SearchStart(state.segments, h.offset)
        end == h.offset + Len(h.payload)
        segs == state.segments
        n == Len(state.segments)
        kept == [r EXCEPT !.frags = MapSet(@, h.id, state)]
        dropped == [r EXCEPT !.frags = MapDelete(@, h.id)]
    IN  IF n > 0 /\ off >= segs[n].end
        THEN IF end > Len(state.buf)
             THEN [out |-> <<>>, err |-> "panic", r |-> kept]
             ELSE Finish(r, h.id, StoreSegment(state, n, off, h.payload, t))
        ELSE IF idx > 0 /\ segs[idx].end > off
        THEN [out |-> <<>>, err |-> "fragment overlap", r |-> dropped]
        ELSE IF end > Len(state.buf)
        THEN [out |-> <<>>, err |-> "panic", r |-> kept]
        ELSE Finish(r, h.id, StoreSegment(state, idx, off, h.payload, t))

PushSegment(r, t, h, state) ==
    LET off == h.offset
        idx == SearchStart(state.segments, h.offset)
        end == h.offset + Len(h.payload)
        segs == state.segments
        n == Len(state.segments)
        kept == [r EXCEPT !.frags = MapSet(@, h.id, state)]
        dropped == [r EXCEPT !.frags = MapDelete(@, h.id)]
    IN  IF n > 0 /\ off >= segs[n].end
        THEN IF end > Len(state.buf)
             THEN [out |-> <<>>, err |-> "panic", r |-> kept]
             ELSE Finish(r, h.id, StoreSegment(state, n, off, h.payload, t))
        ELSE IF idx > 0 /\ segs[idx].end > off
        THEN [out |-> <<>>, err |-> "fragment overlap", r |-> dropped]
        ELSE IF idx < n /\ segs[idx + 1].start < end
        THEN [out |-> <<>>, err |-> "fragment overlap", r |-> dropped]
        ELSE IF end > Len(state.buf)
        THEN [out |-> <<>>, err |-> "panic", r |-> kept]
        ELSE Finish(r, h.id, StoreSegment(state, idx, off, h.payload, t))

\* Push under the mutex, after the sweep of the full table: look the
\* entry up or make it.
PushLocked(r, t, h) ==
    PushSegment(r, t, h,
                IF h.id \in DOMAIN r.frags
                THEN r.frags[h.id]
                ELSE [total |-> h.total, received |-> 0, updatedAt |-> t,
                      buf |-> [i \in 1 .. h.total |-> 0], segments |-> <<>>])

PushHeader(r, t, h) ==
    IF h.err # "nil"
    THEN [out |-> <<>>, err |-> h.err, r |-> r]
    ELSE IF h.total = 0
    THEN [out |-> <<>>, err |-> "invalid fragment total", r |-> r]
    ELSE IF r.maxTotal > 0 /\ h.total > r.maxTotal
    THEN [out |-> <<>>, err |-> "fragment total too large", r |-> r]
    ELSE IF h.offset + Len(h.payload) > h.total
    THEN [out |-> <<>>, err |-> "fragment exceeds total", r |-> r]
    ELSE PushLocked(IF Cardinality(DOMAIN r.frags) >= r.maxEntries
                    THEN sweepLocked(r, t) ELSE r, t, h)

\* Reassembler.Push(b) at time t: the payload returned (<<>> for nil), the
\* error, and the reassembler afterwards.
Push(r, t, b) == PushHeader(r, t, DecodeFragmentHeader(b))

(***************************************************************************)
(* Wire header.  A datagram is its first bytes, at most HeaderLen of them, *)
(* followed by the AEAD ciphertext: [head, body].                          *)
(***************************************************************************)
Magic == <<81, 68, 84>>
ProtocolVersion == 1
HeaderLen == 22
DefaultMTU == 1350
AeadOverhead == 16
MsgData == 0
MsgFragment == 1
MsgPing == 2
MsgPong == 3

WriteHeader(h) ==
    Magic \o <<h.Version, h.Type, h.Flags>>
          \o BigEndian(h.SessionID, 8) \o BigEndian(h.Counter, 8)

\* ParseHeader as it would be with the version tested before the magic.
ParseHeaderVersionFirst(raw) ==
    IF Len(raw.head) < HeaderLen
    THEN [err |-> "invalid datagram", hdr |-> <<>>]
    ELSE IF raw.head[4] # ProtocolVersion
    THEN [err |-> "unsupported datagram version", hdr |-> <<>>]
    ELSE IF SubSeq(raw.head, 1, 3) # Magic
    THEN [err |-> "invalid datagram magic", hdr |-> <<>>]
    ELSE [err |-> "nil",
          hdr |-> [Version |-> raw.head[4], Type |-> raw.head[5],
                   Flags |-> raw.head[6], SessionID |-> Uint(raw.head, 6, 8),
                   Counter |-> Uint(raw.head, 14, 8)]]

ParseHeader(raw) ==
    IF Len(raw.head) < HeaderLen
    THEN [err |-> "invalid datagram", hdr |-> <<>>]
    ELSE IF SubSeq(raw.head, 1, 3) # Magic
    THEN [err |-> "invalid datagram magic", hdr |-> <<>>]
    ELSE IF raw.head[4] # ProtocolVersion
    THEN [err |-> "unsupported datagram version", hdr |-> <<>>]
    ELSE [err |-> "nil",
          hdr |-> [Version |-> raw.head[4], Type |-> raw.head[5],
                   Flags |-> raw.head[6], SessionID |-> Uint(raw.head, 6, 8),
                   Counter |-> Uint(raw.head, 14, 8)]]

(***************************************************************************)
(* Tunnel codec.  A Tunnel's fixed part is a record; its send counter and  *)
(* fragment id counter, its replay window and its reassembler are state.   *)
(***************************************************************************)
\* A counter that is read and never advanced.
NextCounterWithoutAdd(sendCounter) ==
    [value |-> sendCounter, sendCounter |-> sendCounter]

\* CipherState.NextCounter: atomic.AddUint64(&c.sendCounter, 1) - 1
NextCounter(sendCounter) ==
    [value |-> sendCounter, sendCounter |-> (sendCounter + 1) % CounterModulus]

\* Fragmenter.NextID: atomic.AddUint32(&f.nextID, 1)
NextID(nextID) == nextID + 1

\* NewTunnelWithLimits with recomputeMTU
NewTunnelWithLimits(sessionID, mtu, send, recv, maxReassembly) ==
    LET m == IF mtu <= 0 THEN DefaultMTU ELSE mtu
    IN  [SessionID |-> sessionID, MTU |-> m, Send |-> send, Recv |-> recv,
         payloadMTUValue |-> m - (HeaderLen + AeadOverhead),
         fragPayloadMTUValue |-> m - (HeaderLen + AeadOverhead) - fragHeaderLen,
         Reasm |-> NewReassembler(0, 0, maxReassembly)]

\* The datagram for the given header bytes: Seal with the header as AAD.
Sealed(t, counter, head, payload) ==
    [head |-> head, body |-> Seal(t.Send, counter, head, payload)]

\* encodeAndEmit / encodeAndEmitTo once the counter is taken
encodeAndEmit(t, counter, msgType, payload) ==
    Sealed(t, counter,
           WriteHeader([Version |-> ProtocolVersion, Type |-> msgType,
                        Flags |-> 0, SessionID |-> t.SessionID,
                        Counter |-> counter]),
           payload)

\* The plaintext of the fragment of payload that starts at offset; first as
\* it would be with slices of the whole plaintext MTU.
FragmentPlainOfPayloadMTU(t, fragID, payload, offset) ==
    WriteFragmentHeader(fragID, offset, Len(payload))
        \o Slice(payload, offset,
                 IF offset + t.payloadMTUValue > Len(payload)
                 THEN Len(payload) ELSE offset + t.payloadMTUValue)

FragmentPlain(t, fragID, payload, offset) ==
    WriteFragmentHeader(fragID, offset, Len(payload))
        \o Slice(payload, offset,
                 IF offset + t.fragPayloadMTUValue > Len(payload)
                 THEN Len(payload) ELSE offset + t.fragPayloadMTUValue)

\* The loop of EncodePacket from offset on, each datagram taking the next
\* counter: the datagrams emitted.
RECURSIVE EncodeFragments(_, _, _, _, _)
EncodeFragments(t, sendCounter, fragID, payload, offset) ==
    IF offset >= Len(payload)
    THEN <<>>
    ELSE <<encodeAndEmit(t, NextCounter(sendCounter).value, MsgFragment,
                         FragmentPlain(t, fragID, payload, offset))>>
         \o EncodeFragments(t, NextCounter(sendCounter).sendCounter, fragID,
                            payload, offset + t.fragPayloadMTUValue)

\* Number of fragments of a payload of n bytes
FragmentCount(t, n) ==
    (n + t.fragPayloadMTUValue - 1) \div t.fragPayloadMTUValue

\* Tunnel.EncodePacket with an emit that succeeds: the error, the
\* datagrams emitted in order, and the counters afterwards.
EncodePacket(t, st, payload) ==
    IF t.payloadMTUValue <= 0
    THEN [err |-> "invalid mtu", out |-> <<>>, st |-> st]
    ELSE IF Len(payload) <= t.payloadMTUValue
    THEN [err |-> "nil",
          out |-> <<encodeAndEmit(t, NextCounter(st.sendCounter).value,
                                  MsgData, payload)>>,
          st |-> [st EXCEPT !.sendCounter = NextCounter(@).sendCounter]]
    ELSE IF t.fragPayloadMTUValue <= 0
    THEN [err |-> "fragment mtu too small", out |-> <<>>, st |-> st]
    ELSE [err |-> "nil",
          out |-> EncodeFragments(t, st.sendCounter, NextID(st.nextID),
                                  payload, 0),
          st |-> [st EXCEPT
                    !.sendCounter = (@ + FragmentCount(t, Len(payload)))
                                       % CounterModulus,
                    !.nextID = NextID(@)]]

\* len(ciphertext): the plaintext and the tag
CipherLen(body) == Len(body.pt) + AeadOverhead

\* DecodeDatagramInto after Reasm.Push
DecodePushed(win, dstCap, pooled, pushed) ==
    IF pushed.err # "nil" \/ pushed.out = <<>>
    THEN [pkt |-> pushed.out, pooled |-> pooled, err |-> pushed.err,
          win |-> win, reasm |-> pushed.r]
    ELSE [pkt |-> pushed.out, pooled |-> dstCap >= Len(pushed.out),
          err |-> "nil", win |-> win, reasm |-> pushed.r]

\* DecodeDatagramInto after Recv.Open
DecodeOpened(r, tnow, dstCap, hdr, pooled, opened) ==
    IF opened.err # "nil"
    THEN [pkt |-> <<>>, pooled |-> FALSE, err |-> opened.err,
          win |-> opened.win, reasm |-> r]
    ELSE IF hdr.Type = MsgData
    THEN [pkt |-> opened.pt, pooled |-> pooled, err |-> "nil",
          win |-> opened.win, reasm |-> r]
    ELSE IF hdr.Type = MsgFragment
    THEN DecodePushed(opened.win, dstCap, pooled, Push(r, tnow, opened.pt))
    ELSE IF hdr.Type \in {MsgPing, MsgPong}
    THEN [pkt |-> <<>>, pooled |-> pooled, err |-> "nil",
          win |-> opened.win, reasm |-> r]
    ELSE [pkt |-> <<>>, pooled |-> FALSE, err |-> "unknown message type",
          win |-> opened.win, reasm |-> r]

\* DecodeDatagramInto after ParseHeader
DecodeParsed(t, win, r, tnow, dstCap, raw, parsed) ==
    IF parsed.err # "nil"
    THEN [pkt |-> <<>>, pooled |-> FALSE, err |-> parsed.err,
          win |-> win, reasm |-> r]
    ELSE IF parsed.hdr.SessionID # t.SessionID
    THEN [pkt |-> <<>>, pooled |-> FALSE, err |-> "session id mismatch",
          win |-> win, reasm |-> r]
    ELSE IF CipherLen(raw.body) - AeadOverhead < 0
    THEN [pkt |-> <<>>, pooled |-> FALSE, err |-> "invalid datagram",
          win |-> win, reasm |-> r]
    ELSE DecodeOpened(r, tnow, dstCap, parsed.hdr,
                      dstCap >= CipherLen(raw.body) - AeadOverhead,
                      Open(t.Recv, win, parsed.hdr.Counter, raw.head, raw.body))

\* Tunnel.DecodeDatagramInto(dst, raw) at time tnow, win being the replay
\* window of t.Recv and r the tunnel's reassembler, dstCap being cap(dst):
\* the packet (<<>> for none), pooled, the error, and win and r afterwards.
DecodeDatagramInto(t, win, r, tnow, dstCap, raw) ==
    DecodeParsed(t, win, r, tnow, dstCap, raw, ParseHeader(raw))

(***************************************************************************)
(* IPv4 packets                                                            *)
(***************************************************************************)
\* PacketSourceV4 without the test of the version nibble.
PacketSourceAnyVersion(pkt) ==
    IF Len(pkt) < 20
    THEN [ok |-> FALSE, src |-> 0]
    ELSE IF Len(pkt) < (pkt[1] % 16) * 4 \/ (pkt[1] % 16) * 4 < 20
    THEN [ok |-> FALSE, src |-> 0]
    ELSE [ok |-> TRUE, src |-> Uint(pkt, 12, 4)]

PacketSourceV4(pkt) ==
    IF Len(pkt) < 20
    THEN [ok |-> FALSE, src |-> 0]
    ELSE IF pkt[1] \div 16 # 4
    THEN [ok |-> FALSE, src |-> 0]
    ELSE IF Len(pkt) < (pkt[1] % 16) * 4 \/ (pkt[1] % 16) * 4 < 20
    THEN [ok |-> FALSE, src |-> 0]
    ELSE [ok |-> TRUE, src |-> Uint(pkt, 12, 4)]

(***************************************************************************)
(* Gateway: connectHandler calls, sessions, their loops, the idle sweep.   *)
(***************************************************************************)
MaxHandshakes == 2
ServerHostBits == 2
SessionTimeout == 1
TickLength == 2
MaxTime == 1

Handshakes == 1 .. MaxHandshakes
Loops == {"recv", "encode", "send"}

ServerPool == New(PoolNetwork, 32 - ServerHostBits, {GatewayIP})

\* No connectHandler call under way, no sweep, no session of a handshake.
HandshakesIdle ==
    /\ hs = [h \in Handshakes |->
                [pc |-> "idle", ip |-> 0, releaseIP |-> FALSE, status |-> 0]]
    /\ sess = [h \in Handshakes |->
                [ip4 |-> 0, closeOnce |-> "new", step |-> "none",
                 closed |-> FALSE, lastSeen |-> 0]]
    /\ loops = [h \in Handshakes |-> [l \in Loops |-> "off"]]
    /\ sweep = [pc |-> "idle", now |-> 0, shard |-> 0, list |-> {}, target |-> 0]
    /\ now = 0
    /\ hist = [h \in Handshakes |->
                [closes |-> 0, callbacks |-> 0, releases |-> <<>>,
                 acquired |-> 0, added |-> FALSE, registered |-> FALSE]]

GatewayIdle ==
    /\ shards = newSessionTable(SessionShards)
    /\ activeSessions = 0
    /\ HandshakesIdle

(***************************************************************************)
(* Parties, inputs and the components' states after construction.          *)
(***************************************************************************)
ClientSend == [key |-> "clientKey", noncePrefix |-> "clientPrefix"]
ServerSend == [key |-> "serverKey", noncePrefix |-> "serverPrefix"]
ServerRecv == ClientSend
ClientRecv == ServerSend

OpenCounters ==
    {0, 1, 2, 64, 66, 67, 68, 133, CounterModulus - 1}

\* What a caller may hand to Open for header counter c: the datagram the
\* peer sealed with c, one sealed with another counter, one under another key.
Ciphertexts(c) ==
    {Seal(ClientSend, c, "hdr", <<1>>),
     Seal(ClientSend, (c + 1) % CounterModulus, "hdr", <<1>>),
     Seal(ServerSend, c, "hdr", <<1>>)}

ReplayIdle ==
    /\ recvWin = NewReplayWindow(ReplaySize)
    /\ accepts = [c \in OpenCounters |-> 0]
    /\ lastOpen = [counter |-> 0, err |-> "none", seenBefore |-> FALSE]

PoolRange == (New(PoolNetwork, PoolPrefixLen, {GatewayIP}).pool.base - 1) ..
             (New(PoolNetwork, PoolPrefixLen, {GatewayIP}).pool.max + 1)

IpamIdle ==
    /\ pool = New(PoolNetwork, PoolPrefixLen, {GatewayIP}).pool
    /\ held = [a \in PoolRange |-> 0]
    /\ lastPool = [op |-> "none", err |-> "nil", ip |-> 0, usedBefore |-> FALSE]

\* The reassembler under test and the fragments pushed to it.  With the
\* first id: every non-empty [offset, end) within one byte past the limit,
\* with a total of zero, of the limit, of one less and of one more, the
\* payload bytes being those of Payload at the fragment's offsets.  With
\* each further id: the first byte of a payload of full length.  And one
\* input shorter than a fragment header.
ReasmTtl == 1
ReasmMaxEntries == 1
ReasmMaxTotal == 3
MaxFragIds == 2
ReasmMaxTime == ReasmTtl + 1

Payload(n) == [i \in 1 .. n |-> i]

Fragment(id, off, end, total) ==
    WriteFragmentHeader(id, off, total)
        \o SubSeq(Payload(ReasmMaxTotal + 1), off + 1, end)

FragmentInputs ==
    {Fragment(1, seg[1], seg[2], total) :
        seg \in {s \in (0 .. ReasmMaxTotal) \X (1 .. (ReasmMaxTotal + 1)) :
                    s[1] < s[2] /\ s[2] - s[1] <= ReasmMaxTotal},
        total \in {0, ReasmMaxTotal - 1, ReasmMaxTotal, ReasmMaxTotal + 1}}
    \cup {Fragment(id, 0, 1, ReasmMaxTotal) : id \in 2 .. MaxFragIds}
    \cup {BigEndian(1, 4)}

NoRun == [active |-> FALSE, ok |-> TRUE, swept |-> FALSE, n |-> 0,
          first |-> 0, segs |-> {}]

ReasmIdle ==
    /\ reasm = NewReassembler(ReasmTtl, ReasmMaxEntries, ReasmMaxTotal)
    /\ clock = 0
    /\ run = [id \in 1 .. MaxFragIds |-> NoRun]
    /\ lastPush = [ok |-> FALSE, swept |-> FALSE, covered |-> FALSE,
                   n |-> 0, first |-> 0, count |-> 0, out |-> <<>>,
                   err |-> "none"]

\* The tunnel pair of one session.  The client's MTU leaves FragPayload
\* bytes to a fragment, or is large enough for every packet to travel as
\* one Data datagram; the gateway's reassembly limit is MaxReassembly and
\* its packet buffers hold as much.
TunnelSessionID == 7
FragPayload == 7
MaxReassembly == 24
TunQueue == 1
MaxPackets == 2

SmallMTU == HeaderLen + AeadOverhead + fragHeaderLen + FragPayload
LargeMTU == HeaderLen + AeadOverhead + MaxReassembly + 1
ClientMTUs == {SmallMTU, LargeMTU}
PacketCap == MaxReassembly
SessionIP4 == GatewayIP + 1
OtherIP4 == GatewayIP + 2

ClientTunnel(mtu) ==
    NewTunnelWithLimits(TunnelSessionID, mtu, ClientSend, ClientRecv, 0)
ServerTunnel ==
    NewTunnelWithLimits(TunnelSessionID, SmallMTU, ServerSend, ServerRecv,
                        MaxReassembly)

\* A packet of n bytes whose first byte (version and header length) and
\* source address are as given, every other byte being its own position.
IPv4Packet(first, src, n) ==
    [i \in 1 .. n |->
        IF i = 1 THEN first
        ELSE IF i \in 13 .. 16 THEN BigEndian(src, 4)[i - 12] ELSE i]

\* What the client sends: the session's address with header lengths of 20
\* and 24 bytes; another source; version 6; a packet of 19 bytes; header
\* lengths of 16 bytes and of 24 in a packet of 20; one byte more than the
\* reassembly limit.
Packets ==
    {IPv4Packet(69, SessionIP4, 20), IPv4Packet(70, SessionIP4, 24),
     IPv4Packet(69, OtherIP4, 20), IPv4Packet(101, SessionIP4, 20),
     IPv4Packet(69, SessionIP4, 19), IPv4Packet(68, SessionIP4, 20),
     IPv4Packet(70, SessionIP4, 20),
     IPv4Packet(69, SessionIP4, MaxReassembly + 1)}

\* Datagrams that are not the client tunnel's: cut short, wrong magic,
\* wrong version, the counter in the header raised to the largest, another
\* session's id, sealed under another key, of an unknown type, and a ping.
ForgedCounter == 20
ForgedFor(t, otherKey) ==
    LET good == encodeAndEmit(t, ForgedCounter, MsgData,
                              IPv4Packet(69, SessionIP4, 20))
    IN  {[good EXCEPT !.head = SubSeq(@, 1, HeaderLen - 1)],
         [good EXCEPT !.head[1] = 0],
         [good EXCEPT !.head[4] = ProtocolVersion + 1],
         [good EXCEPT !.head = SubSeq(@, 1, HeaderLen - 8)
                                  \o BigEndian(CounterModulus - 1, 8)],
         encodeAndEmit([t EXCEPT !.SessionID = @ + 1], ForgedCounter, MsgData,
                       IPv4Packet(69, SessionIP4, 20)),
         encodeAndEmit([t EXCEPT !.Send = otherKey], ForgedCounter, MsgData,
                       IPv4Packet(69, SessionIP4, 20)),
         encodeAndEmit(t, ForgedCounter, MsgPong + 2,
                       IPv4Packet(69, SessionIP4, 20)),
         encodeAndEmit(t, ForgedCounter, MsgPing, <<>>)}

Forged == ForgedFor(ClientTunnel(LargeMTU), ServerSend)

TunnelIdle ==
    /\ sender = [mtu |-> 0, sendCounter |-> 0, nextID |-> 0]
    /\ wire = {}
    /\ sent = <<>>
    /\ fed = {}
    /\ tunWriteCh = <<>>
    /\ recvOutcome = "none"

\* The send path of one session: SendWorkers encode workers, a send queue
\* and a datagram queue, batches of SendBatch, and packets of one byte, of
\* a full Data datagram and of two fragments.
SendWorkers == 2
SendQueue == 2
DgQueue == 1
SendBatch == 2
MaxIssued == 3
SendFragPayload == 13

Workers == 1 .. SendWorkers
SendMTU == HeaderLen + AeadOverhead + fragHeaderLen + SendFragPayload
DgCap == SendMTU

\* connectHandler takes the smaller of the configured MTU and the MTU the
\* client asks for, whatever it is: NarrowMTU leaves one byte to a Data
\* datagram and nothing to a fragment.
NarrowMTU == HeaderLen + AeadOverhead + 1
SendMTUs == {SendMTU, NarrowMTU}
SendTunnel ==
    NewTunnelWithLimits(TunnelSessionID, sender.mtu, ServerSend, ServerRecv,
                        MaxReassembly)
SendPackets ==
    {Payload(1), Payload(SendMTU - (HeaderLen + AeadOverhead) + 1)}

IdleWorker ==
    [pc |-> "idle", i |-> 0, pkt |-> <<>>, type |-> MsgData, fragID |-> 0,
     offset |-> 0, counter |-> 0, out |-> <<>>]

SendIdle ==
    /\ sendCh = <<>>
    /\ dgCh = <<>>
    /\ enc = [w \in Workers |-> IdleWorker]
    /\ sendClosed = FALSE
    /\ closeErr = "none"
    /\ issued = <<>>
    /\ sealed = <<>>

\* The history after one more datagram was sealed under the key and nonce
\* of the ciphertext body.
CountSealed(h, body) ==
    IF <<body.key, body.nonce>> \in DOMAIN h
    THEN [h EXCEPT ![<<body.key, body.nonce>>] = IF @ < 2 THEN @ + 1 ELSE @]
    ELSE h @@ (<<body.key, body.nonce>> :> 1)

\* The client: its receive pump before it is started.
maxPacketSize == 65535
MaxBuffers == 4
PacketBuffers == 1 .. MaxBuffers

NoRound == [loop |-> "none", buf |-> 0, outcome |-> "none", puts |-> 0,
            queues |-> <<>>]

\* Every buffer lies in the pool, no round has run.
BuffersPooled ==
    /\ packetPool = [b \in PacketBuffers |-> 1]
    /\ lastRound = NoRound

GlobalBurst == 2
IPBurst == 1
LimiterTTL == 1

\* rate.NewLimiter at the time t: a full bucket.
NewLimiter(burst, t) == [tokens |-> burst, last |-> t]

\* newHandshakeLimiter with both limiters configured; lastSweep is the zero
\* time, further back than the TTL from any reading of the clock.
newHandshakeLimiter ==
    [global |-> NewLimiter(GlobalBurst, 0), entries |-> <<>>,
     lastSweep |-> 0 - LimiterTTL - 1]

ServerIdle ==
    /\ hsLimit = newHandshakeLimiter
    /\ cfg = [MTU |-> DefaultMTU, MaxSessions |-> 0]

LoopsOff ==
    /\ loopCtl = [ctxDone |-> FALSE, recv |-> "off", send |-> "off", i |-> 0]
    /\ BuffersPooled
    /\ ServerIdle

ClientIdle ==
    /\ pump = [running |-> FALSE, err |-> "none", last |-> "none"]
    /\ LoopsOff

DataIdle == ReasmIdle /\ TunnelIdle /\ SendIdle /\ ClientIdle

(***************************************************************************)
(* Specification of the pool: Acquire and Release calls of concurrent      *)
(* callers, each run under the pool's mutex, in any order.                 *)
(***************************************************************************)
ExtraReserved == {{}, {GatewayIP + 3}}

IpamInit ==
    /\ pool \in {New(PoolNetwork, PoolPrefixLen, {GatewayIP} \cup extra).pool :
                    extra \in ExtraReserved}
    /\ held = [a \in PoolRange |-> 0]
    /\ lastPool = [op |-> "none", err |-> "nil", ip |-> 0, usedBefore |-> FALSE]
    /\ DataIdle
    /\ ReplayIdle
    /\ GatewayIdle

AcquireCall ==
    LET r == Acquire(pool)
    IN  /\ pool' = r.pool
        /\ held' = IF r.err = "nil" THEN [held EXCEPT ![r.ip] = @ + 1] ELSE held
        /\ lastPool' = [op |-> "acquire", err |-> r.err, ip |-> r.ip,
                        usedBefore |-> r.ip \in pool.used]
        /\ UNCHANGED <<dataVars, replayVars, gatewayVars>>

ReleaseCall(ip) ==
    /\ pool' = Release(pool, ip)
    /\ held' = [held EXCEPT ![ip] = 0]
    /\ lastPool' = [op |-> "release", err |-> "nil", ip |-> ip,
                    usedBefore |-> ip \in pool.used]
    /\ UNCHANGED <<dataVars, replayVars, gatewayVars>>

IpamNext ==
    \/ AcquireCall
    \/ \E ip \in PoolRange : ReleaseCall(ip)

SpecIpam == IpamInit /\ [][IpamNext]_vars

\* C3: the addresses returned by Acquire and not yet released are pairwise
\* distinct; Acquire returns no address that was in the used set at the
\* call, and the returned address is in the used set afterwards.
C3_AcquiredDistinct ==
    /\ \A a \in PoolRange : held[a] <= 1
    /\ (lastPool.op = "acquire" /\ lastPool.err = "nil") =>
           /\ ~lastPool.usedBefore
           /\ lastPool.ip \in pool.used

\* An address released earlier is handed out again while others are held.
C3_Witness ==
    /\ lastPool.op = "acquire"
    /\ lastPool.err = "nil"
    /\ lastPool.ip < pool.max
    /\ Cardinality({a \in PoolRange : held[a] = 1}) >= 3
    /\ pool.max \in pool.used

\* The addresses of [base, max] that Acquire may hand out from p, and the
\* place of address a in the cyclic order over [base, max] that starts at
\* the cursor (the cursor is max + 1 after max was handed out).
FreeOf(p) == {a \in p.base .. p.max : a \notin p.used /\ a \notin p.reserved}

CyclicPlace(p, a) == (a - p.next + (p.max - p.base + 1)) % (p.max - p.base + 1)

\* The addresses returned by n Acquire calls in a row, 0 for a failed call.
RECURSIVE AcquireRun(_, _)
AcquireRun(p, n) ==
    IF n = 0 THEN <<>>
    ELSE <<Acquire(p).ip>> \o AcquireRun(Acquire(p).pool, n - 1)

\* The k-th smallest element of a set of numbers.
RECURSIVE Nth(_, _)
Nth(S, k) ==
    LET least == CHOOSE x \in S : \A y \in S : x <= y
    IN  IF k = 1 THEN least ELSE Nth(S \ {least}, k - 1)

\* C18: after any sequence of Acquire and Release calls no reserved address
\* is or was handed out: neither the network address, nor the broadcast
\* address, nor the gateway, nor any other address in the reserved set is
\* the result of an Acquire, is held by a caller, or is in the used set.
C18_NeverReserved ==
    /\ {pool.base - 1, pool.max + 1, GatewayIP} \subseteq pool.reserved
    /\ \A a \in pool.reserved \cup {pool.base - 1, pool.max + 1, GatewayIP} :
          /\ a \in DOMAIN held => held[a] = 0
          /\ a \notin pool.used
          /\ (lastPool.op = "acquire" /\ lastPool.err = "nil") => lastPool.ip # a

\* Acquire has wrapped around: the top address is taken and the call has
\* passed the network, broadcast and gateway addresses to return the first
\* address after the gateway.
C18_Witness ==
    /\ lastPool.op = "acquire"
    /\ lastPool.err = "nil"
    /\ lastPool.ip = GatewayIP + 1
    /\ pool.max \in pool.used
    /\ Cardinality(pool.reserved) > 3

\* C19: an Acquire call returns the first address, in cyclic order over
\* [base, max] from the cursor, that is neither used nor reserved, adds it
\* to used and sets the cursor to the address after it; when there is none
\* it fails and leaves the pool as it was.  From a new pool with only the
\* gateway reserved, successive calls return the free addresses in rising
\* order (.2 to .6 on the /29) and the call after the last one fails.
C19_AcquireFirstFree ==
    /\ LET p0 == New(PoolNetwork, PoolPrefixLen, {GatewayIP}).pool
           n == Cardinality(FreeOf(p0))
           got == AcquireRun(p0, n + 1)
       IN  /\ \A k \in 1 .. n : got[k] = Nth(FreeOf(p0), k)
           /\ got[n + 1] = 0
    /\ [][lastPool'.op = "acquire" =>
            IF FreeOf(pool) = {}
            THEN /\ lastPool'.err = "address pool exhausted"
                 /\ pool' = pool
            ELSE /\ lastPool'.err = "nil"
                 /\ lastPool'.ip \in FreeOf(pool)
                 /\ \A b \in FreeOf(pool) :
                       CyclicPlace(pool, lastPool'.ip) <= CyclicPlace(pool, b)
                 /\ pool' = [pool EXCEPT !.used = @ \cup {lastPool'.ip},
                                         !.next = lastPool'.ip + 1]]_vars

\* Acquire has returned an address above a free one: the cursor, not the
\* bottom of the range, is where the search started.
C19_Witness ==
    /\ lastPool.op = "acquire"
    /\ lastPool.err = "nil"
    /\ \E b \in FreeOf(pool) : b < lastPool.ip

\* The call after the last free address was handed out has failed.
C19_WitnessExhausted ==
    /\ lastPool.op = "acquire"
    /\ lastPool.err = "address pool exhausted"
    /\ FreeOf(pool) = {}

\* C20: a Release call removes its address from used and changes nothing
\* else (not the reserved set, not the cursor); on an address that is not in
\* used it changes nothing, so a second Release of the same address leaves
\* the pool as the first left it; and an address that was in used is free
\* afterwards: Acquire calls in a row return it again.
C20_ReleaseRestores ==
    [][lastPool'.op = "release" =>
          /\ pool' = [pool EXCEPT !.used = @ \ {lastPool'.ip}]
          /\ pool'.reserved = pool.reserved
          /\ lastPool'.ip \notin pool.used => pool' = pool
          /\ Release(pool', lastPool'.ip) = pool'
          /\ lastPool'.ip \in pool.used =>
                \E k \in 1 .. (pool.max - pool.base + 1) :
                    AcquireRun(pool', k)[k] = lastPool'.ip]_vars

\* An address is released a second time, after the release that freed it,
\* while other addresses are held.
C20_Witness ==
    /\ lastPool.op = "release"
    /\ ~lastPool.usedBefore
    /\ lastPool.ip \in FreeOf(pool)
    /\ pool.next > lastPool.ip
    /\ pool.used # {}

(***************************************************************************)
(* Specification of the gateway: concurrent connectHandler calls, each     *)
(* session's Close (run once under closeOnce by whichever caller comes     *)
(* first), the session loops, the idle sweep and the clock.                *)
(***************************************************************************)
GatewayInit ==
    /\ GatewayIdle
    /\ DataIdle
    /\ ReplayIdle
    /\ pool = ServerPool.pool
    /\ held = [a \in PoolRange |-> 0]
    /\ lastPool = [op |-> "none", err |-> "nil", ip |-> 0, usedBefore |-> FALSE]

\* A Once that has forgotten it ran.
OnceForgetful(s) == sess[s].closeOnce # "running"

\* sync.Once: the function runs for the first caller only.
OnceFresh(s) == sess[s].closeOnce = "new"

\* Session.Close entered by a caller: the first caller starts the body,
\* every caller returns once the body has run (CloseReturned).
CloseEnter(s) ==
    IF OnceFresh(s)
    THEN [sess EXCEPT ![s].closeOnce = "running", ![s].step = "close"]
    ELSE sess

CloseReturned(s) == sess[s].closeOnce = "done"

\* connectHandler up to the address pool: the request is refused (bad
\* token, rate limit, busy, bad body) or goes on to Acquire.
Connect(h) ==
    /\ hs[h].pc = "idle"
    /\ \E refused \in {0, 401} :
          hs' = [hs EXCEPT ![h].pc = IF refused = 0 THEN "acquire" ELSE "done",
                           ![h].status = refused]
    /\ UNCHANGED <<dataVars, replayVars, ipamVars, shards, activeSessions, sess, loops,
                   sweep, now, hist>>

HsAcquire(h) ==
    /\ hs[h].pc = "acquire"
    /\ LET r == Acquire(pool)
       IN  IF r.err # "nil"
           THEN /\ hs' = [hs EXCEPT ![h].pc = "done", ![h].status = 503]
                /\ UNCHANGED pool
           ELSE /\ hs' = [hs EXCEPT ![h].pc = "derive", ![h].ip = r.ip,
                                    ![h].releaseIP = TRUE]
                /\ pool' = r.pool
    /\ hist' = [hist EXCEPT ![h].acquired = Acquire(pool).ip]
    /\ UNCHANGED <<dataVars, replayVars, held, lastPool, shards, activeSessions, sess,
                   loops, sweep, now>>

\* DeriveKeyMaterial fails on a client nonce that is not 16 bytes long;
\* otherwise the cipher states, the tunnel and the session are built.
HsDerive(h) ==
    /\ hs[h].pc = "derive"
    /\ \E nonceLen \in {15, 16} :
          IF nonceLen # 16
          THEN /\ hs' = [hs EXCEPT ![h].pc = "return", ![h].status = 500]
               /\ UNCHANGED sess
          ELSE /\ hs' = [hs EXCEPT ![h].pc = "add"]
               /\ sess' = [sess EXCEPT ![h].ip4 = hs[h].ip, ![h].lastSeen = now]
    /\ UNCHANGED <<dataVars, replayVars, ipamVars, shards, activeSessions, loops, sweep,
                   now, hist>>

\* addSession: sessions.Add
HsAdd(h) ==
    /\ hs[h].pc = "add"
    /\ shards' = Add(shards, h, sess[h].ip4)
    /\ hist' = [hist EXCEPT ![h].registered = TRUE, ![h].added = TRUE]
    /\ hs' = [hs EXCEPT ![h].pc = "count"]
    /\ UNCHANGED <<dataVars, replayVars, ipamVars, activeSessions, sess, loops, sweep, now>>

\* addSession as it would be with releaseIP left set afterwards.
HsCountKeepingReleaseIP(h) ==
    /\ hs[h].pc = "count"
    /\ activeSessions' = activeSessions + 1
    /\ hs' = [hs EXCEPT ![h].pc = "respond"]
    /\ UNCHANGED <<dataVars, replayVars, ipamVars, shards, sess, loops, sweep, now, hist>>

\* addSession: activeSessions.Add(1); then releaseIP = false
HsCount(h) ==
    /\ hs[h].pc = "count"
    /\ activeSessions' = activeSessions + 1
    /\ hs' = [hs EXCEPT ![h].pc = "respond", ![h].releaseIP = FALSE]
    /\ UNCHANGED <<dataVars, replayVars, ipamVars, shards, sess, loops, sweep, now, hist>>

\* WriteConnectResponse: on failure sess.Close(err); otherwise sess.Start
\* and the handler waits for the session's closed channel.
HsRespond(h) ==
    /\ hs[h].pc = "respond"
    /\ \/ /\ hs' = [hs EXCEPT ![h].pc = "close"]
          /\ sess' = CloseEnter(h)
          /\ UNCHANGED loops
       \/ /\ hs' = [hs EXCEPT ![h].pc = "wait", ![h].status = 200]
          /\ loops' = [loops EXCEPT ![h] = [l \in Loops |-> "run"]]
          /\ UNCHANGED sess
    /\ UNCHANGED <<dataVars, replayVars, ipamVars, shards, activeSessions, sweep, now, hist>>

HsCloseReturn(h) ==
    /\ hs[h].pc = "close"
    /\ CloseReturned(h)
    /\ hs' = [hs EXCEPT ![h].pc = "return"]
    /\ UNCHANGED <<dataVars, replayVars, ipamVars, shards, activeSessions, sess, loops,
                   sweep, now, hist>>

HsWait(h) ==
    /\ hs[h].pc = "wait"
    /\ sess[h].closed
    /\ hs' = [hs EXCEPT ![h].pc = "return"]
    /\ UNCHANGED <<dataVars, replayVars, ipamVars, shards, activeSessions, sess, loops,
                   sweep, now, hist>>

\* The deferred function: release the address if releaseIP is still set.
HsReturn(h) ==
    /\ hs[h].pc = "return"
    /\ hs' = [hs EXCEPT ![h].pc = "done", ![h].ip = 0, ![h].releaseIP = FALSE]
    /\ IF hs[h].releaseIP
       THEN /\ pool' = Release(pool, hs[h].ip)
            /\ hist' = [hist EXCEPT ![h].releases = Append(@, "handler")]
       ELSE UNCHANGED <<pool, hist>>
    /\ UNCHANGED <<dataVars, replayVars, held, lastPool, shards, activeSessions, sess,
                   loops, sweep, now>>

\* The body of Close, run by the first caller: close(s.closed), then the
\* close callback onSessionClose: Remove, Release, activeSessions.Add(-1).
CloseChan(s) ==
    /\ sess[s].step = "close"
    /\ sess' = [sess EXCEPT ![s].closed = TRUE, ![s].step = "remove"]
    /\ hist' = [hist EXCEPT ![s].closes = @ + 1]
    /\ UNCHANGED <<dataVars, replayVars, ipamVars, shards, activeSessions, hs, loops,
                   sweep, now>>

CbRemove(s) ==
    /\ sess[s].step = "remove"
    /\ shards' = Remove(shards, sess[s].ip4)
    /\ sess' = [sess EXCEPT ![s].step = "release"]
    /\ hist' = [hist EXCEPT ![s].callbacks = @ + 1, ![s].registered = FALSE]
    /\ UNCHANGED <<dataVars, replayVars, ipamVars, activeSessions, hs, loops, sweep, now>>

CbRelease(s) ==
    /\ sess[s].step = "release"
    /\ pool' = Release(pool, sess[s].ip4)
    /\ sess' = [sess EXCEPT ![s].step = "count"]
    /\ hist' = [hist EXCEPT ![s].releases = Append(@, "callback")]
    /\ UNCHANGED <<dataVars, replayVars, held, lastPool, shards, activeSessions, hs,
                   loops, sweep, now>>

CbCount(s) ==
    /\ sess[s].step = "count"
    /\ activeSessions' = activeSessions - 1
    /\ sess' = [sess EXCEPT ![s].step = "done", ![s].closeOnce = "done"]
    /\ UNCHANGED <<dataVars, replayVars, ipamVars, shards, hs, loops, sweep, now, hist>>

\* A loop of the session: a transport error or the cancelled stream
\* context makes it call Close and return (the Session specification
\* below follows the loops step by step); traffic refreshes lastSeen.
LoopFail(s, l) ==
    /\ loops[s][l] = "run"
    /\ loops' = [loops EXCEPT ![s][l] = "close"]
    /\ sess' = CloseEnter(s)
    /\ UNCHANGED <<dataVars, replayVars, ipamVars, shards, activeSessions, hs, sweep,
                   now, hist>>

Traffic(s) ==
    /\ \E l \in {"recv", "encode"} : loops[s][l] = "run"
    /\ sess[s].lastSeen # now
    /\ sess' = [sess EXCEPT ![s].lastSeen = now]
    /\ UNCHANGED <<dataVars, replayVars, ipamVars, shards, activeSessions, hs, loops,
                   sweep, now, hist>>

\* sessionSweepLoop: on a tick read the clock, snapshot the table shard
\* by shard, then close each listed session that has been idle too long.
SweepTick ==
    /\ sweep.pc = "idle"
    /\ now < MaxTime
    /\ now' = now + 1
    /\ sweep' = [pc |-> "snapshot", now |-> now + 1, shard |-> 0, list |-> {},
                 target |-> 0]
    /\ UNCHANGED <<dataVars, replayVars, ipamVars, shards, activeSessions, hs, sess,
                   loops, hist>>

SweepSnapshot ==
    /\ sweep.pc = "snapshot"
    /\ LET i == sweep.shard
           got == sweep.list \cup {shards[i][k] : k \in DOMAIN shards[i]}
       IN  sweep' = IF i + 1 < Cardinality(DOMAIN shards)
                    THEN [sweep EXCEPT !.shard = i + 1, !.list = got]
                    ELSE [sweep EXCEPT !.pc = "scan", !.shard = 0, !.list = got]
    /\ UNCHANGED <<dataVars, replayVars, ipamVars, shards, activeSessions, hs, sess,
                   loops, now, hist>>

\* A test that finds every session idle too long.
IdleAlways(at, last) == TRUE

\* now.Sub(last) > SessionTimeout, the clock counting ticks of TickLength
IdleTooLong(at, last) == (at - last) * TickLength > SessionTimeout

SweepScan ==
    /\ sweep.pc = "scan"
    /\ IF sweep.list = {}
       THEN /\ sweep' = [sweep EXCEPT !.pc = "idle", !.now = 0]
            /\ UNCHANGED sess
       ELSE \E s \in sweep.list :
               IF IdleTooLong(sweep.now, sess[s].lastSeen)
               THEN /\ sweep' = [sweep EXCEPT !.pc = "close", !.target = s,
                                              !.list = @ \ {s}]
                    /\ sess' = CloseEnter(s)
               ELSE /\ sweep' = [sweep EXCEPT !.list = @ \ {s}]
                    /\ UNCHANGED sess
    /\ UNCHANGED <<dataVars, replayVars, ipamVars, shards, activeSessions, hs, loops,
                   now, hist>>

SweepCloseReturn ==
    /\ sweep.pc = "close"
    /\ CloseReturned(sweep.target)
    /\ sweep' = [sweep EXCEPT !.pc = "scan", !.target = 0]
    /\ UNCHANGED <<dataVars, replayVars, ipamVars, shards, activeSessions, hs, sess,
                   loops, now, hist>>

GatewayNext ==
    \/ \E h \in Handshakes :
          \/ Connect(h) \/ HsAcquire(h) \/ HsDerive(h) \/ HsAdd(h)
          \/ HsCount(h) \/ HsRespond(h) \/ HsCloseReturn(h) \/ HsWait(h)
          \/ HsReturn(h)
          \/ CloseChan(h) \/ CbRemove(h) \/ CbRelease(h) \/ CbCount(h)
          \/ Traffic(h)
          \/ \E l \in Loops : LoopFail(h, l)
    \/ SweepTick \/ SweepSnapshot \/ SweepScan \/ SweepCloseReturn

SpecGateway == GatewayInit /\ [][GatewayNext]_vars

\* C4: whatever callers invoke Close (the handler, the loops, the sweep),
\* the done channel is closed at most once and the close callback invoked
\* at most once, and exactly once each when a Close call has returned.
C4_CloseOneShot ==
    \A s \in Handshakes :
        /\ hist[s].closes <= 1
        /\ hist[s].callbacks <= 1
        /\ CloseReturned(s) => (hist[s].closes = 1 /\ hist[s].callbacks = 1)

\* All three loops and the sweep are inside Close of one session.
C4_Witness ==
    \E s \in Handshakes :
        /\ \A l \in Loops : loops[s][l] = "close"
        /\ sweep.pc = "close" /\ sweep.target = s
        /\ hist[s].closes = 1

\* C5: an address acquired by a handshake is released exactly once: by the
\* handler's deferred release when the handshake fails before the session
\* is added, otherwise by the close callback; never by both, never twice,
\* and it is free again after the failed handshake or the closed session.
C5_ReleasedExactlyOnce ==
    \A h \in Handshakes :
        LET ip == hist[h].acquired
            rel == hist[h].releases
            heldByOther == \E g \in Handshakes \ {h} :
                              hist[g].acquired = ip /\ hist[g].releases = <<>>
        IN  /\ Len(rel) <= 1
            /\ (ip # 0 /\ rel = <<>>) => ip \in pool.used
            /\ (ip # 0 /\ rel # <<>>) => (ip \notin pool.used \/ heldByOther)
            /\ hist[h].added => rel \in {<<>>, <<"callback">>}
            /\ ~hist[h].added => rel \in {<<>>, <<"handler">>}
            /\ (ip # 0 /\ ~hist[h].added /\ hs[h].pc = "done") => rel = <<"handler">>
            /\ CloseReturned(h) => rel = <<"callback">>

\* One handshake failed after Acquire, another's session was closed.
C5_Witness ==
    \E g, h \in Handshakes :
        /\ hist[g].releases = <<"handler">> /\ hs[g].pc = "done"
        /\ hist[h].releases = <<"callback">> /\ CloseReturned(h)

\* C6: the sessions added to the table and not removed have pairwise
\* distinct addresses, and each is still the table's entry for its
\* address: no Add has overwritten it.
C6_UniqueAddress ==
    \A s \in Handshakes :
        hist[s].registered =>
            /\ GetByIP(shards, sess[s].ip4) = s
            /\ \A t \in Handshakes \ {s} :
                   hist[t].registered => sess[t].ip4 # sess[s].ip4

\* A session is in the table under the address that a session closed
\* before it had held.
C6_Witness ==
    \E s, t \in Handshakes :
        /\ s # t
        /\ hist[s].registered
        /\ GetByIP(shards, sess[s].ip4) = s
        /\ CloseReturned(t)
        /\ sess[t].ip4 = sess[s].ip4


\* Scheduling of the gateway's sweep: the ticker fires while the server
\* runs, sessionSweepLoop goes on from step to step, and a Close call that
\* has entered goes through its body.  Every one of these steps is taken
\* in the end if the steps of this kind do not stop being possible, which
\* is less than the scheduler gives to each goroutine by itself.
SweepStep == SweepTick \/ SweepSnapshot \/ SweepScan \/ SweepCloseReturn

CloseStep(s) == CloseChan(s) \/ CbRemove(s) \/ CbRelease(s) \/ CbCount(s)

SweepFairness == WF_vars(SweepStep \/ \E s \in Handshakes : CloseStep(s))

SpecGatewayFair == SpecGateway /\ SweepFairness

\* onSessionClose has run for s: out of the table, address released.
Unregistered(s) ==
    /\ sess[s].closed
    /\ ~hist[s].registered
    /\ \E k \in 1 .. Len(hist[s].releases) : hist[s].releases[k] = "callback"

\* C24: in a sweep, a session of the snapshot is closed exactly when its
\* lastSeen is more than SessionTimeout before the tick's time, and the
\* Close the sweep called has returned only with the session closed,
\* removed from the table and its address released; and a registered
\* session that stays idle (its lastSeen not refreshed), with a tick still
\* to come, is eventually closed, removed and released.
C24_SweepClosesIdle ==
    /\ [][(sweep.pc = "scan" /\ sweep.list # sweep'.list) =>
             \E s \in sweep.list :
                /\ sweep'.list = sweep.list \ {s}
                /\ IF (sweep.now - sess[s].lastSeen) * TickLength > SessionTimeout
                   THEN /\ sweep'.pc = "close"
                        /\ sweep'.target = s
                        /\ sess'[s].closeOnce # "new"
                   ELSE /\ sweep'.pc = "scan"
                        /\ sess' = sess]_vars
    /\ [][(sweep.pc = "close" /\ sweep'.pc # "close") =>
             Unregistered(sweep.target)]_vars
    /\ \A s \in Handshakes : \A t \in 0 .. (MaxTime - 1) :
          (hist[s].registered /\ sess[s].lastSeen = t /\ now < MaxTime)
              ~> (Unregistered(s) \/ sess[s].lastSeen > t)

\* The sweep is over: it has closed a session whose loops were all
\* running and left alone another that was seen at the time of the tick.
C24_Witness ==
    /\ sweep.pc = "idle"
    /\ now > 0
    /\ \E s \in Handshakes :
          /\ Unregistered(s)
          /\ \A l \in Loops : loops[s][l] = "run"
          /\ \E s2 \in Handshakes \ {s} :
                /\ hist[s2].registered
                /\ ~sess[s2].closed
                /\ sess[s2].lastSeen = now

(***************************************************************************)
(* Specification of the receive cipher state: sequential Open calls with   *)
(* any counters, on authentic and on forged ciphertexts.                   *)
(***************************************************************************)
ReplayInit ==
    /\ DataIdle
    /\ ReplayIdle
    /\ IpamIdle
    /\ GatewayIdle

OpenCall(counter, ciphertext) ==
    LET r == Open(ServerRecv, recvWin, counter, "hdr", ciphertext)
    IN  /\ recvWin' = r.win
        /\ accepts' = IF r.err = "nil"
                      THEN [accepts EXCEPT ![counter] = @ + 1]
                      ELSE accepts
        /\ lastOpen' = [counter |-> counter, err |-> r.err,
                        seenBefore |-> accepts[counter] > 0]
        /\ UNCHANGED <<dataVars, ipamVars, gatewayVars>>

ReplayNext ==
    \E counter \in OpenCounters :
        \E ciphertext \in Ciphertexts(counter) : OpenCall(counter, ciphertext)

SpecReplay == ReplayInit /\ [][ReplayNext]_vars

\* C1: over any sequence of Open calls on one receive state, one after the
\* other, a counter is accepted (plaintext returned) at most once: an Open
\* with a counter already accepted returns the replay error, whether the
\* counter is still inside the window or has fallen behind it.
C1_AcceptedAtMostOnce ==
    /\ \A c \in OpenCounters : accepts[c] <= 1
    /\ lastOpen.seenBefore => lastOpen.err = "replay"

\* An accepted counter, now behind the window, has just been refused
\* again while another accepted counter is still inside the window.
C1_Witness ==
    /\ lastOpen.seenBefore /\ lastOpen.err = "replay"
    /\ lastOpen.counter + recvWin.size <= recvWin.max
    /\ \E c \in OpenCounters :
          c < recvWin.max /\ c + recvWin.size > recvWin.max /\ accepts[c] = 1

(***************************************************************************)
(* Specification of the reassembler: Push calls with any fragment, each    *)
(* run under the reassembler's mutex, and the passing of time.             *)
(*                                                                         *)
(* run[id] follows the fragments pushed with one id since the id was last  *)
(* absent from the table: ok says that they are so far non-empty,          *)
(* pairwise disjoint segments of one total n within the limit, swept that  *)
(* a sweep has removed the id's entry meanwhile.                           *)
(***************************************************************************)
ReasmInit ==
    /\ ReasmIdle
    /\ TunnelIdle
    /\ SendIdle
    /\ ClientIdle
    /\ ReplayIdle
    /\ IpamIdle
    /\ GatewayIdle

Disjoint(segs, off, end) ==
    \A s \in segs : end <= s[1] \/ s[2] <= off

RECURSIVE Covered(_)
Covered(segs) ==
    IF segs = {} THEN 0
    ELSE LET s == CHOOSE x \in segs : TRUE
         IN  (s[2] - s[1]) + Covered(segs \ {s})

\* The ids whose entries the sweep of this Push call removes.
SweptBy(r, t, b) ==
    LET h == DecodeFragmentHeader(b)
    IN  IF /\ h.err = "nil" /\ h.total > 0 /\ h.total <= r.maxTotal
           /\ h.offset + Len(h.payload) <= h.total
           /\ Cardinality(DOMAIN r.frags) >= r.maxEntries
        THEN DOMAIN r.frags \ DOMAIN sweepLocked(r, t).frags
        ELSE {}

PushCall(b) ==
    \E h \in {DecodeFragmentHeader(b)}, res \in {Push(reasm, clock, b)},
       gone \in {SweptBy(reasm, clock, b)} :
    LET cur == run[h.id]
        end == h.offset + Len(h.payload)
        ok == /\ IF cur.active THEN cur.ok /\ h.total = cur.n
                 ELSE h.id \notin DOMAIN reasm.frags
              /\ Len(h.payload) > 0
              /\ h.total <= reasm.maxTotal
              /\ end <= h.total
              /\ Disjoint(cur.segs, h.offset, end)
        swept == ok /\ ((cur.active /\ cur.swept) \/ h.id \in gone)
        segs == IF ok THEN cur.segs \cup {<<h.offset, end>>} ELSE {}
        first == IF ~ok THEN 0 ELSE IF cur.active THEN cur.first ELSE h.offset
        covered == ok /\ Covered(segs) = h.total
        over == covered \/ h.id \notin DOMAIN res.r.frags
        mark(id) == IF run[id].active /\ run[id].ok /\ id \in gone
                    THEN [run[id] EXCEPT !.swept = TRUE] ELSE run[id]
    IN  /\ reasm' = res.r
        /\ IF h.err # "nil"
           THEN /\ run' = run
                /\ lastPush' = [ok |-> FALSE, swept |-> FALSE,
                                covered |-> FALSE, n |-> 0, first |-> 0,
                                count |-> 0, out |-> res.out, err |-> res.err]
           ELSE /\ run' = [id \in 1 .. MaxFragIds |->
                             IF id # h.id THEN mark(id)
                             ELSE IF over THEN NoRun
                             ELSE [active |-> TRUE, ok |-> ok, swept |-> swept,
                                   n |-> IF ok THEN h.total ELSE 0,
                                   first |-> first, segs |-> segs]]
                /\ lastPush' = [ok |-> ok, swept |-> swept,
                                covered |-> covered,
                                n |-> IF ok THEN h.total ELSE 0,
                                first |-> first, count |-> Cardinality(segs),
                                out |-> res.out, err |-> res.err]
        /\ UNCHANGED <<clock, tunnelVars, sendVars, pump, loopCtl, packetPool, lastRound, hsLimit, cfg, replayVars, ipamVars,
                       gatewayVars>>

ReasmTick ==
    /\ clock < ReasmMaxTime
    /\ clock' = clock + 1
    /\ UNCHANGED <<reasm, run, lastPush, tunnelVars, sendVars, pump, loopCtl, packetPool, lastRound, hsLimit, cfg, replayVars,
                   ipamVars, gatewayVars>>

ReasmNext ==
    \/ \E b \in FragmentInputs : PushCall(b)
    \/ ReasmTick

SpecReasm == ReasmInit /\ [][ReasmNext]_vars

\* C9 as stated: the fragments of one id being a partition of a payload of
\* length n <= max_total into non-empty disjoint segments, pushed in any
\* order, every Push returns nothing and no error until the segments
\* cover [0, n), and the Push of the covering segment returns the payload.
C9_PartitionReturnsPayload ==
    lastPush.ok =>
        /\ lastPush.err = "nil"
        /\ lastPush.out = IF lastPush.covered THEN Payload(lastPush.n) ELSE <<>>

\* C9 with its missing condition: the same, provided no sweep of the full
\* table has removed the id's entry between its first and last segment;
\* and segments that do not cover [0, n) never make Push return a payload.
C9_PartitionReturnsPayloadUnswept ==
    lastPush.ok =>
        /\ lastPush.err = "nil"
        /\ ~lastPush.covered => lastPush.out = <<>>
        /\ (lastPush.covered /\ ~lastPush.swept) => lastPush.out = Payload(lastPush.n)

\* The payload of full length comes back from three segments pushed last
\* one first, with time passing in between.
C9_Witness ==
    /\ lastPush.ok /\ lastPush.covered /\ ~lastPush.swept
    /\ lastPush.n = ReasmMaxTotal
    /\ lastPush.count = ReasmMaxTotal
    /\ lastPush.first = ReasmMaxTotal - 1
    /\ lastPush.out = Payload(ReasmMaxTotal)
    /\ clock > 0

\* C10: the table holds at most max_entries entries and every entry's
\* total is at most max_total.
C10_TableBounded ==
    /\ Cardinality(DOMAIN reasm.frags) <= reasm.maxEntries
    /\ \A id \in DOMAIN reasm.frags : reasm.frags[id].total <= reasm.maxTotal

\* The fragment b, pushed now, has bytes in common with a segment stored
\* under its id in the table r.
OverlapsStored(r, b) ==
    LET h == DecodeFragmentHeader(b)
    IN  /\ h.err = "nil"
        /\ h.id \in DOMAIN r.frags
        /\ \E i \in 1 .. Len(r.frags[h.id].segments) :
              /\ r.frags[h.id].segments[i].start < h.offset + Len(h.payload)
              /\ h.offset < r.frags[h.id].segments[i].end

\* Push has refused b as an overlap: the error, nothing returned, the id's
\* entry gone with its buffer, every other entry as the sweep left it.
RefusedAsOverlap(r, t, b) ==
    LET h == DecodeFragmentHeader(b)
        res == Push(r, t, b)
    IN  /\ res.err = "fragment overlap"
        /\ res.out = <<>>
        /\ h.id \notin DOMAIN res.r.frags
        /\ \A id \in DOMAIN res.r.frags : res.r.frags[id] = r.frags[id]

\* b passes the checks Push makes on the fragment header before it looks
\* at the table.
HeaderAccepted(r, b) ==
    LET h == DecodeFragmentHeader(b)
    IN  /\ h.err = "nil"
        /\ h.total > 0
        /\ ~(r.maxTotal > 0 /\ h.total > r.maxTotal)
        /\ h.offset + Len(h.payload) <= h.total

TunnelSession == 1

\* Session.Close(err): closeOnce lets the first call close the session
SessionClose(err) ==
    IF sendClosed
    THEN UNCHANGED closedVars
    ELSE sendClosed' = TRUE /\ closeErr' = err

TunnelInit ==
    /\ sender \in {[mtu |-> m, sendCounter |-> 0, nextID |-> 0] : m \in ClientMTUs}
    /\ wire = {}
    /\ sent = <<>>
    /\ fed = {}
    /\ tunWriteCh = <<>>
    /\ recvOutcome = "none"
    /\ reasm = ServerTunnel.Reasm
    /\ clock = 0
    /\ run = [id \in 1 .. MaxFragIds |-> NoRun]
    /\ lastPush = [ok |-> FALSE, swept |-> FALSE, covered |-> FALSE,
                   n |-> 0, first |-> 0, count |-> 0, out |-> <<>>,
                   err |-> "none"]
    /\ SendIdle
    /\ ClientIdle
    /\ ReplayIdle
    /\ pool = Acquire(New(PoolNetwork, PoolPrefixLen, {GatewayIP}).pool).pool
    /\ held = [a \in PoolRange |-> 0]
    /\ lastPool = [op |-> "none", err |-> "nil", ip |-> 0, usedBefore |-> FALSE]
    /\ shards = Add(newSessionTable(SessionShards), TunnelSession, SessionIP4)
    /\ activeSessions = 1
    /\ HandshakesIdle

Range(s) == {s[i] : i \in 1 .. Len(s)}

\* PumpTunToConn: one packet read from the interface and encoded
ClientEncode(p) ==
    /\ Len(sent) < MaxPackets
    /\ \E e \in {EncodePacket(ClientTunnel(sender.mtu), sender, p)} :
          /\ sender' = e.st
          /\ wire' = wire \cup Range(e.out)
          /\ sent' = Append(sent, [p |-> p, dgrams |-> Range(e.out),
                                   reordered |-> FALSE, returned |-> 0,
                                   bad |-> FALSE])
    /\ UNCHANGED <<fed, tunWriteCh, recvOutcome, reasmVars, sendVars, pump, loopCtl, packetPool, lastRound, hsLimit, cfg,
                   replayVars, ipamVars, gatewayVars>>

\* The encoded packet whose datagram raw is, fed for the first time; or 0.
SentIndex(raw) ==
    IF raw \in fed \/ ~\E k \in 1 .. Len(sent) : raw \in sent[k].dgrams
    THEN 0
    ELSE CHOOSE k \in 1 .. Len(sent) : raw \in sent[k].dgrams

\* The history of the packet a datagram belongs to, after the datagram raw
\* went through DecodeDatagramInto with the result dec.
Fed(h, raw, dec) ==
    [h EXCEPT
       !.reordered = @ \/ \E d \in h.dgrams \ fed :
                             d.body.nonce[2] < raw.body.nonce[2],
       !.returned = IF dec.pkt = h.p /\ @ < 2 THEN @ + 1 ELSE @,
       !.bad = \/ @
               \/ dec.err # "nil"
               \/ dec.pkt # <<>> /\ ~(h.dgrams \subseteq fed \cup {raw})]

\* How a round of recvLoop ends once the datagram is in hand: the label of
\* the drop counter it adds to, "in" for a packet passed on, "empty" when
\* the datagram gave no packet.
RecvOutcome(allow, dec, src, room) ==
    IF ~allow THEN "rate_in"
    ELSE IF dec.err = "replay" THEN "replay"
    ELSE IF dec.err # "nil" THEN "decode"
    ELSE IF Len(dec.pkt) = 0 THEN "empty"
    ELSE IF ~dec.pooled /\ Len(dec.pkt) > PacketCap THEN "decode_oversize"
    ELSE IF ~src.ok THEN "bad_packet"
    ELSE IF src.src # SessionIP4 THEN "src_mismatch"
    ELSE IF room THEN "in"
    ELSE "tun_backpressure"

\* A loop that closed the session on a datagram it could not decode.
RecvReturnsOnDecode(outcome) == outcome \in {"receive", "decode"}

\* recvLoop closes the session and returns when ReceiveDatagram fails;
\* every other round ends in continue.
RecvReturns(outcome) == outcome = "receive"

\* Session.Close with onSessionClose
CloseAndUnregister(err) ==
    /\ SessionClose(err)
    /\ shards' = Remove(shards, SessionIP4)
    /\ pool' = Release(pool, SessionIP4)
    /\ activeSessions' = activeSessions - 1

\* The limiter refused the datagram: nothing was decoded.
NotDecoded ==
    [pkt |-> <<>>, pooled |-> FALSE, err |-> "nil", win |-> recvWin,
     reasm |-> reasm]

\* One round of recvLoop on the datagram raw, the rate limiter allowing it
\* or not.
RecvLoop(raw, allow) ==
    /\ ~sendClosed
    /\ \E dec \in {IF allow
                    THEN DecodeDatagramInto(ServerTunnel, recvWin, reasm,
                                            clock, PacketCap, raw)
                    ELSE NotDecoded},
          k \in {SentIndex(raw)} :
       \E outcome \in {RecvOutcome(allow, dec, PacketSourceV4(dec.pkt),
                                   Len(tunWriteCh) < TunQueue)} :
          /\ recvOutcome' = outcome
          /\ IF ~allow
             THEN UNCHANGED <<recvWin, reasm, fed, sent, tunWriteCh>>
             ELSE /\ recvWin' = dec.win
                  /\ reasm' = dec.reasm
                  /\ fed' = IF k = 0 THEN fed ELSE fed \cup {raw}
                  /\ sent' = IF k = 0 THEN sent
                             ELSE [sent EXCEPT ![k] = Fed(@, raw, dec)]
                  /\ tunWriteCh' = IF outcome = "in"
                                   THEN Append(tunWriteCh, dec.pkt)
                                   ELSE tunWriteCh
          /\ IF RecvReturns(outcome)
             THEN CloseAndUnregister("transport")
             ELSE UNCHANGED <<closedVars, shards, pool, activeSessions>>
    /\ UNCHANGED <<sender, wire, clock, run, lastPush, accepts, lastOpen,
                   queueVars, pump, loopCtl, packetPool, lastRound, hsLimit, cfg, held, lastPool, hs, sess, loops, sweep, now,
                   hist>>

\* recvLoop: ReceiveDatagram fails
RecvFail ==
    /\ ~sendClosed
    /\ recvOutcome' = "receive"
    /\ IF RecvReturns("receive")
       THEN CloseAndUnregister("transport")
       ELSE UNCHANGED <<closedVars, shards, pool, activeSessions>>
    /\ UNCHANGED <<sender, wire, sent, fed, tunWriteCh, reasmVars, replayVars,
                   queueVars, pump, loopCtl, packetPool, lastRound, hsLimit, cfg, held, lastPool, hs, sess, loops, sweep, now,
                   hist>>

\* tunWriteLoop: one packet written to the interface
TunWrite ==
    /\ tunWriteCh # <<>>
    /\ tunWriteCh' = Tail(tunWriteCh)
    /\ UNCHANGED <<sender, wire, sent, fed, recvOutcome, reasmVars, sendVars, pump, loopCtl, packetPool, lastRound, hsLimit, cfg,
                   replayVars, ipamVars, gatewayVars>>

TunnelNext ==
    \/ \E p \in Packets : ClientEncode(p)
    \/ \E raw \in wire \cup Forged, allow \in BOOLEAN : RecvLoop(raw, allow)
    \/ RecvFail
    \/ TunWrite

SpecTunnel == TunnelInit /\ [][TunnelNext]_vars

\* The IPv4 packets with a header of at least 20 bytes inside the packet
\* and the source address ip.
IsIPv4From(pkt, ip) ==
    /\ Len(pkt) >= 20
    /\ pkt[1] \div 16 = 4
    /\ pkt[1] % 16 >= 5
    /\ Len(pkt) >= 4 * (pkt[1] % 16)
    /\ SubSeq(pkt, 13, 16) = BigEndian(ip, 4)

\* C7: every packet the session puts on the interface write channel is a
\* well-formed IPv4 packet whose source is the session's address, whether
\* it came in one Data datagram or reassembled from fragments; a decoded
\* packet that is not is dropped.
C7_OnlyOwnSource ==
    \A i \in 1 .. Len(tunWriteCh) : IsIPv4From(tunWriteCh[i], SessionIP4)

\* A reassembled packet is on the channel after every datagram of a packet
\* that is not the session's own IPv4 was decoded.
C7_Witness ==
    /\ \E k \in 1 .. Len(sent) :
          /\ Cardinality(sent[k].dgrams) > 1
          /\ sent[k].returned = 1
          /\ tunWriteCh = <<sent[k].p>>
    /\ \E k \in 1 .. Len(sent) :
          /\ sent[k].dgrams \subseteq fed
          /\ sent[k].returned = 1
          /\ ~IsIPv4From(sent[k].p, SessionIP4)

\* The datagrams of the packet h so far returned no error, nothing before
\* the one that completed the packet, and the packet once on that one.
RoundTrip(h) ==
    /\ ~h.bad
    /\ h.returned = IF h.dgrams \subseteq fed THEN 1 ELSE 0

\* C8 as stated: of the datagrams EncodePacket made of a payload, fed to
\* the peer's DecodeDatagramInto in any order, the one that completes the
\* payload returns it, every other returns nothing, and none an error.
C8_RoundTrip ==
    \A k \in 1 .. Len(sent) : RoundTrip(sent[k])

\* C8 with its missing condition: the same for a payload that travels as
\* one Data datagram or is no longer than the peer's reassembly limit.
C8_RoundTripWithinLimit ==
    \A k \in 1 .. Len(sent) :
        (\/ Cardinality(sent[k].dgrams) = 1
         \/ Len(sent[k].p) <= ServerTunnel.Reasm.maxTotal) =>
            RoundTrip(sent[k])

\* A payload of four fragments, fed out of order, came back on the last.
C8_Witness ==
    \E k \in 1 .. Len(sent) :
        /\ Cardinality(sent[k].dgrams) > 3
        /\ sent[k].dgrams \subseteq fed
        /\ sent[k].reordered
        /\ sent[k].returned = 1

\* The errors of DecodeDatagramInto up to and including Open
OpenErrors ==
    {"invalid datagram", "invalid datagram magic",
     "unsupported datagram version", "session id mismatch", "replay", "auth"}

\* C16: a DecodeDatagramInto that fails on the header, on the session id,
\* on the replay check or on the tag returns with the replay window and the
\* reassembler as they were, whatever counter the datagram's header names.
C16_FailedOpenLeavesWindow ==
    \A raw \in wire \cup Forged :
        \E dec \in {DecodeDatagramInto(ServerTunnel, recvWin, reasm, clock,
                                       PacketCap, raw)} :
            dec.err \in OpenErrors => dec.win = recvWin /\ dec.reasm = reasm

\* With counters accepted and a packet half reassembled, a round of
\* recvLoop failed on a forged datagram, none of the client's own having
\* failed and no datagram of the forged counter having been accepted.
C16_Witness ==
    /\ recvOutcome = "decode"
    /\ recvWin.initialized /\ recvWin.max < ForgedCounter
    /\ DOMAIN reasm.frags # {}
    /\ \A k \in 1 .. Len(sent) : ~sent[k].bad

(***************************************************************************)
(* Specification of a session's send path: Enqueue fills the send queue,   *)
(* each encodeLoop worker takes packets and runs EncodePacketTo one step   *)
(* at a time (the atomic NextCounter, then the seal, then the blocking     *)
(* emit to the datagram queue), and sendLoop sends the datagrams.  The     *)
(* session may be closed at any moment, as it is when the transport fails  *)
(* under sendLoop; sendLoop is allowed to go on draining after the close.  *)
(* MaxIssued bounds the counters taken or about to be.                     *)
(***************************************************************************)
SendInit ==
    /\ SendIdle
    /\ ClientIdle
    /\ sender \in {[mtu |-> mtu, sendCounter |-> 0, nextID |-> 0] :
                      mtu \in SendMTUs}
    /\ wire = {}
    /\ sent = <<>>
    /\ fed = {}
    /\ tunWriteCh = <<>>
    /\ recvOutcome = "none"
    /\ ReasmIdle
    /\ ReplayIdle
    /\ IpamIdle
    /\ GatewayIdle

sendRest == <<sent, fed, tunWriteCh, recvOutcome, pump, loopCtl, packetPool, lastRound, hsLimit, cfg, reasmVars, replayVars, ipamVars,
              gatewayVars>>

CloseCauses == {"transport", "context", "session timeout"}

\* A send that waits for room instead of giving up.
SendAlways(ch, capacity, v) == [ok |-> TRUE, ch |-> Append(ch, v)]

\* select { case ch <- v: return true; default: return false } on a
\* channel of the given capacity: the result and the channel afterwards.
SelectSend(ch, capacity, v) ==
    IF Len(ch) < capacity
    THEN [ok |-> TRUE, ch |-> Append(ch, v)]
    ELSE [ok |-> FALSE, ch |-> ch]

\* Session.Enqueue, called by tunReadLoop
Enqueue(pkt) ==
    /\ Len(issued) + Len(sendCh)
          + Cardinality({w \in Workers : enc[w].pc = "counter"}) < MaxIssued
    /\ sendCh' = SelectSend(sendCh, SendQueue, pkt).ch
    /\ UNCHANGED <<dgCh, enc, closedVars, issued, sealed, sender, wire,
                   sendRest>>

\* EncodePacketTo up to its first call of encodeAndEmitTo, by the worker e
\* holding pkt: the worker, the fragment id counter, and the error.
BeginEncode(t, e, pkt, nextID) ==
    IF t.payloadMTUValue <= 0
    THEN [err |-> "invalid mtu", enc |-> e, nextID |-> nextID]
    ELSE IF Len(pkt) <= t.payloadMTUValue
    THEN [err |-> "nil", nextID |-> nextID,
          enc |-> [e EXCEPT !.pc = "counter", !.pkt = pkt, !.type = MsgData,
                            !.offset = 0]]
    ELSE IF t.fragPayloadMTUValue <= 0
    THEN [err |-> "fragment mtu too small", enc |-> e, nextID |-> nextID]
    ELSE [err |-> "nil", nextID |-> NextID(nextID),
          enc |-> [e EXCEPT !.pc = "counter", !.pkt = pkt,
                            !.type = MsgFragment, !.offset = 0,
                            !.fragID = NextID(nextID)]]

\* encodeLoop takes a packet from the send queue, at the head of the loop
\* or inside a batch, and processEncode asks the limiter.
TakePacket(w, allow) ==
    /\ \/ enc[w].pc = "idle"
       \/ enc[w].pc = "batch" /\ enc[w].i < SendBatch
    /\ sendCh # <<>>
    /\ sendCh' = Tail(sendCh)
    /\ \E e \in {[enc[w] EXCEPT !.i = IF enc[w].pc = "idle" THEN 1 ELSE @ + 1]} :
          IF ~allow
          THEN /\ enc' = [enc EXCEPT ![w] = [e EXCEPT !.pc = "batch"]]
               /\ UNCHANGED <<sender, closedVars>>
          ELSE \E b \in {BeginEncode(SendTunnel, e, Head(sendCh), sender.nextID)} :
                  /\ sender' = [sender EXCEPT !.nextID = b.nextID]
                  /\ IF b.err = "nil"
                     THEN /\ enc' = [enc EXCEPT ![w] = b.enc]
                          /\ UNCHANGED closedVars
                     ELSE /\ enc' = [enc EXCEPT ![w] = [e EXCEPT !.pc = "done"]]
                          /\ SessionClose(b.err)
    /\ UNCHANGED <<dgCh, issued, sealed, wire, sendRest>>

\* The batch loop ends: the batch is full or the send queue is empty.
BatchBreak(w) ==
    /\ enc[w].pc = "batch"
    /\ enc[w].i >= SendBatch \/ sendCh = <<>>
    /\ enc' = [enc EXCEPT ![w] = [@ EXCEPT !.pc = "idle"]]
    /\ UNCHANGED <<sendCh, dgCh, closedVars, issued, sealed, sender, wire,
                   sendRest>>

\* encodeLoop sees the session closed
WorkerExit(w) ==
    /\ enc[w].pc = "idle"
    /\ sendClosed
    /\ enc' = [enc EXCEPT ![w] = [@ EXCEPT !.pc = "done"]]
    /\ UNCHANGED <<sendCh, dgCh, closedVars, issued, sealed, sender, wire,
                   sendRest>>

\* encodeAndEmitTo: counter := t.Send.NextCounter()
TakeCounter(w) ==
    /\ enc[w].pc = "counter"
    /\ \E c \in {NextCounter(sender.sendCounter)} :
          /\ sender' = [sender EXCEPT !.sendCounter = c.sendCounter]
          /\ enc' = [enc EXCEPT ![w] = [@ EXCEPT !.pc = "seal",
                                                 !.counter = c.value]]
          /\ issued' = Append(issued, c.value)
    /\ UNCHANGED <<sendCh, dgCh, closedVars, sealed, wire, sendRest>>

\* The plaintext the worker e is about to seal
Plain(t, e) ==
    IF e.type = MsgData THEN e.pkt
    ELSE FragmentPlain(t, e.fragID, e.pkt, e.offset)

\* encodeAndEmitTo: the buffer from allocDatagram, the header and the seal
SealDatagram(w) ==
    /\ enc[w].pc = "seal"
    /\ \E plain \in {Plain(SendTunnel, enc[w])} :
          IF HeaderLen + AeadOverhead + Len(plain) > DgCap
          THEN /\ enc' = [enc EXCEPT ![w] = [@ EXCEPT !.pc = "done"]]
               /\ SessionClose("payload too large")
               /\ UNCHANGED sealed
          ELSE \E out \in {encodeAndEmit(SendTunnel, enc[w].counter,
                                         enc[w].type, plain)} :
                  /\ enc' = [enc EXCEPT ![w] = [@ EXCEPT !.pc = "emit",
                                                         !.out = out]]
                  /\ sealed' = CountSealed(sealed, out.body)
                  /\ UNCHANGED closedVars
    /\ UNCHANGED <<sendCh, dgCh, issued, sender, wire, sendRest>>

\* The worker after its datagram went to the queue: the next fragment, or
\* the packet is done and the batch goes on.
AfterEmit(t, e) ==
    IF e.type = MsgFragment /\ e.offset + t.fragPayloadMTUValue < Len(e.pkt)
    THEN [e EXCEPT !.pc = "counter", !.out = <<>>,
                   !.offset = @ + t.fragPayloadMTUValue]
    ELSE [e EXCEPT !.pc = "batch", !.out = <<>>, !.pkt = <<>>]

\* enqueueDatagram: the datagram goes to the queue
Emit(w) ==
    /\ enc[w].pc = "emit"
    /\ Len(dgCh) < DgQueue
    /\ dgCh' = Append(dgCh, enc[w].out)
    /\ enc' = [enc EXCEPT ![w] = AfterEmit(SendTunnel, @)]
    /\ UNCHANGED <<sendCh, closedVars, issued, sealed, sender, wire, sendRest>>

\* enqueueDatagram: the session is closed, processEncode gives up
EmitClosed(w) ==
    /\ enc[w].pc = "emit"
    /\ sendClosed
    /\ enc' = [enc EXCEPT ![w] = [@ EXCEPT !.pc = "done", !.out = <<>>]]
    /\ UNCHANGED <<sendCh, dgCh, closedVars, issued, sealed, sender, wire,
                   sendRest>>

\* sendLoop: one datagram taken from the queue and handed to the transport
SendDatagram ==
    /\ dgCh # <<>>
    /\ dgCh' = Tail(dgCh)
    /\ UNCHANGED <<sendCh, enc, closedVars, issued, sealed, sender, wire,
                   sendRest>>

\* Session.Close from sendLoop or recvLoop when the transport fails, from
\* a loop that finds its context cancelled, or from the idle sweep
CloseSession(err) ==
    /\ ~sendClosed
    /\ SessionClose(err)
    /\ UNCHANGED <<sendCh, dgCh, enc, issued, sealed, sender, wire, sendRest>>

SendNext ==
    \/ \E pkt \in SendPackets : Enqueue(pkt)
    \/ \E w \in Workers, allow \in BOOLEAN : TakePacket(w, allow)
    \/ \E w \in Workers : BatchBreak(w)
    \/ \E w \in Workers : WorkerExit(w)
    \/ \E w \in Workers : TakeCounter(w)
    \/ \E w \in Workers : SealDatagram(w)
    \/ \E w \in Workers : Emit(w)
    \/ \E w \in Workers : EmitClosed(w)
    \/ SendDatagram
    \/ \E err \in CloseCauses : CloseSession(err)

SpecSend == SendInit /\ [][SendNext]_vars

\* C2: across the interleavings of a session's encode workers, the k-th
\* call of NextCounter returns k - 1, so no value is returned twice, and
\* no two sealed datagrams of the send direction share a key and nonce.
C2_CountersUnique ==
    /\ \A k \in 1 .. Len(issued) : issued[k] = k - 1
    /\ \A kn \in DOMAIN sealed : sealed[kn] = 1

\* A worker has yet to seal under its counter while another worker, which
\* took its counter later, has sealed a fragment and holds the next one.
C2_Witness ==
    \E w, v \in Workers :
        /\ enc[w].pc = "seal"
        /\ enc[v].pc = "seal" /\ enc[v].type = MsgFragment /\ enc[v].offset > 0
        /\ enc[w].counter < enc[v].counter - 1
        /\ \E kn \in DOMAIN sealed : kn[2][2] = enc[v].counter - 1

\* C11: a session is closed only by a transport failure, by the
\* cancellation of its context or by the idle sweep, never by what happens
\* to one outbound packet.
C11_ClosedOnlyByTransport ==
    sendClosed => closeErr \in CloseCauses

DropReasons ==
    {"rate_in", "replay", "decode", "decode_oversize", "bad_packet",
     "src_mismatch"}

\* C12: a round of recvLoop that drops its datagram (rate limit, decode
\* error, oversize, not IPv4, wrong source) counts the reason and goes on to
\* the next datagram: the session is open and still in the table.
C12_DropKeepsSession ==
    recvOutcome \in DropReasons =>
        /\ ~sendClosed
        /\ GetByIP(shards, SessionIP4) = TunnelSession

\* A packet with a foreign source was dropped after an earlier datagram had
\* failed to decode, and the session is still there.
C12_Witness ==
    /\ recvOutcome \in {"src_mismatch", "bad_packet"}
    /\ \E k \in 1 .. Len(sent) : sent[k].bad
    /\ ~sendClosed
    /\ GetByIP(shards, SessionIP4) = TunnelSession

\* C14: no worker waits on a full queue: an encode worker that has a
\* datagram for the datagram queue can always complete the send, the queue
\* having room or the session being closed.
C14_NoWorkerBlocks ==
    \A w \in Workers :
        enc[w].pc = "emit" => Len(dgCh) < DgQueue \/ sendClosed

\* C15: Enqueue does not wait: with fewer packets in the send queue than
\* its capacity it returns true and the packet is appended, with a full
\* queue it returns false and the queue is as before; the queue never
\* holds more than its capacity.
C15_EnqueueBounded ==
    /\ Len(sendCh) <= SendQueue
    /\ \A pkt \in SendPackets :
          \E r \in {SelectSend(sendCh, SendQueue, pkt)} :
             IF Len(sendCh) < SendQueue
             THEN r.ok /\ r.ch = Append(sendCh, pkt)
             ELSE ~r.ok /\ r.ch = sendCh

\* The send queue is full while a worker is busy with an earlier packet.
C15_Witness ==
    /\ Len(sendCh) = SendQueue
    /\ \E w \in Workers : enc[w].pc \in {"counter", "seal", "emit"}

(***************************************************************************)
(* Specification of the client's receive side: the gateway encodes packets *)
(* for the client, the datagrams arrive in any order, repeated or forged,  *)
(* and PumpConnToTunBuffered decodes each one and writes the packet to the *)
(* interface.  run returns when the pump returns.                          *)
(***************************************************************************)
ClientBound == {IPv4Packet(69, OtherIP4, 20), IPv4Packet(70, OtherIP4, 24)}

ClientInit ==
    /\ sender \in {[mtu |-> m, sendCounter |-> 0, nextID |-> 0] : m \in ClientMTUs}
    /\ wire = {}
    /\ pump = [running |-> TRUE, err |-> "none", last |-> "none"]
    /\ LoopsOff
    /\ recvWin = NewReplayWindow(ReplaySize)
    /\ accepts = [c \in OpenCounters |-> 0]
    /\ lastOpen = [counter |-> 0, err |-> "none", seenBefore |-> FALSE]
    /\ reasm = ClientTunnel(SmallMTU).Reasm
    /\ clock = 0
    /\ run = [id \in 1 .. MaxFragIds |-> NoRun]
    /\ lastPush = [ok |-> FALSE, swept |-> FALSE, covered |-> FALSE,
                   n |-> 0, first |-> 0, count |-> 0, out |-> <<>>,
                   err |-> "none"]
    /\ sent = <<>>
    /\ fed = {}
    /\ tunWriteCh = <<>>
    /\ recvOutcome = "none"
    /\ SendIdle
    /\ IpamIdle
    /\ GatewayIdle

clientRest == <<accepts, lastOpen, clock, run, lastPush, fed, loopCtl,
                packetPool, lastRound, hsLimit, cfg,
                tunWriteCh, recvOutcome, sendVars, ipamVars, gatewayVars>>

\* The gateway encodes one packet for the client
ServerEncode(p) ==
    /\ Len(sent) < MaxPackets
    /\ \E e \in {EncodePacket(SendTunnel, sender, p)} :
          /\ sender' = e.st
          /\ wire' = wire \cup Range(e.out)
          /\ sent' = Append(sent, [p |-> p, dgrams |-> Range(e.out),
                                   reordered |-> FALSE, returned |-> 0,
                                   bad |-> FALSE])
    /\ UNCHANGED <<pump, recvWin, reasm, clientRest>>

\* PumpConnToTunBuffered after DecodeDatagramInto returned dec, the write to
\* the interface succeeding or not: the pump afterwards.
PumpAfter(dec, writeOk) ==
    IF dec.err # "nil"
    THEN [running |-> FALSE, err |-> dec.err,
          last |-> IF dec.err = "replay" THEN "replay" ELSE "decode"]
    ELSE IF Len(dec.pkt) = 0
    THEN [running |-> TRUE, err |-> "none", last |-> "empty"]
    ELSE IF ~dec.pooled /\ Len(dec.pkt) > maxPacketSize
    THEN [running |-> FALSE, err |-> "packet too large", last |-> "oversize"]
    ELSE IF writeOk
    THEN [running |-> TRUE, err |-> "none", last |-> "in"]
    ELSE [running |-> FALSE, err |-> "write tun", last |-> "write"]

\* One round of PumpConnToTunBuffered on the datagram raw
PumpConnToTunBuffered(raw, writeOk) ==
    /\ pump.running
    /\ \E dec \in {DecodeDatagramInto(ClientTunnel(sender.mtu), recvWin, reasm,
                                      clock, maxPacketSize, raw)} :
          /\ recvWin' = dec.win
          /\ reasm' = dec.reasm
          /\ pump' = PumpAfter(dec, writeOk)
    /\ UNCHANGED <<sender, wire, sent, clientRest>>

\* PumpConnToTunBuffered: ReceiveDatagram fails
PumpReceiveFail ==
    /\ pump.running
    /\ pump' = [running |-> FALSE, err |-> "receive datagram", last |-> "receive"]
    /\ UNCHANGED <<sender, wire, sent, recvWin, reasm, clientRest>>

ForgedToClient ==
    ForgedFor(NewTunnelWithLimits(TunnelSessionID, LargeMTU, ServerSend,
                                  ServerRecv, MaxReassembly), ClientSend)

ClientNext ==
    \/ \E p \in ClientBound : ServerEncode(p)
    \/ \E raw \in wire \cup ForgedToClient, writeOk \in BOOLEAN :
          PumpConnToTunBuffered(raw, writeOk)
    \/ PumpReceiveFail

SpecClient == ClientInit /\ [][ClientNext]_vars

\* C13: a datagram the client cannot decode (replay, bad magic or version,
\* session mismatch, authentication failure, reassembly error) is dropped
\* and the pump keeps running.
C13_DecodeErrorKeepsPump ==
    pump.last \in {"replay", "decode"} => pump.running

(***************************************************************************)
(* Specification of a ReplayWindow on its own: any sequence of Mark calls  *)
(* on a window of each width, Check asked for every counter value.         *)
(***************************************************************************)
SmallWindow == 4
WindowSizes == {SmallWindow, ReplaySize}

MarkCounters ==
    {0, 1, 2, 3, 5, 10, 64, 66, 67, 133, CounterModulus - 1}

Counters == 0 .. (CounterModulus - 1)

\* The counters marked so far, and the largest of them.
Marked == {c \in DOMAIN accepts : accepts[c] > 0}

MaxMarked == CHOOSE m \in Marked : \A c \in Marked : c <= m

WindowInit ==
    /\ recvWin \in {NewReplayWindow(size) : size \in WindowSizes}
    /\ accepts = [c \in MarkCounters |-> 0]
    /\ lastOpen = [counter |-> 0, err |-> "none", seenBefore |-> FALSE]
    /\ DataIdle
    /\ IpamIdle
    /\ GatewayIdle

MarkCall(counter) ==
    /\ recvWin' = Mark(recvWin, counter)
    /\ accepts' = [accepts EXCEPT ![counter] = 1]
    /\ lastOpen' = [counter |-> counter, err |-> "none",
                    seenBefore |-> accepts[counter] > 0]
    /\ UNCHANGED <<dataVars, ipamVars, gatewayVars>>

WindowNext == \E counter \in MarkCounters : MarkCall(counter)

SpecWindow == WindowInit /\ [][WindowNext]_vars

\* What the window's rule says of counter c once max is the largest marked
\* counter: refused when it is W or more behind max, or when it is not above
\* max and has been marked.
Refused(c) ==
    \/ c + recvWin.size <= MaxMarked
    \/ c <= MaxMarked /\ c \in Marked

\* C17: after any non-empty sequence of Mark calls on a window of width W,
\* with max the largest marked counter, Check(c) is false exactly when
\* c + W <= max, or c <= max and c was marked earlier; this for every
\* counter value c.
C17_CheckMatchesMarks ==
    Marked # {} =>
        /\ recvWin.max = MaxMarked
        /\ \A c \in Counters : Check(recvWin, c) = ~Refused(c)

\* The same for the counters whose sum with W stays inside the counter range.
CheckMatchesMarksBelowWrap ==
    Marked # {} =>
        /\ recvWin.max = MaxMarked
        /\ \A c \in Counters :
              c + recvWin.size < CounterModulus =>
                  Check(recvWin, c) = ~Refused(c)

(***************************************************************************)
(* Specification of the encoder on its own: EncodePacket calls, one after  *)
(* the other, on tunnels of each MTU around the two limits (no room for a  *)
(* payload, no room for a fragment) and with payloads of every length up   *)
(* to EncodeMaxLen.  sent holds the last call: the payload, the MTU, the   *)
(* fragment id counter before the call, the error and the datagrams.       *)
(***************************************************************************)
EncodeMaxLen == 25
MaxEncodeCounter == 24
MaxEncodeIDs == 3

EncodeMTUs ==
    {HeaderLen + AeadOverhead, NarrowMTU,
     HeaderLen + AeadOverhead + fragHeaderLen,
     HeaderLen + AeadOverhead + fragHeaderLen + 1,
     SmallMTU, LargeMTU}

EncodeInit ==
    /\ sender \in {[mtu |-> m, sendCounter |-> 0, nextID |-> 0] : m \in EncodeMTUs}
    /\ wire = {}
    /\ sent = <<>>
    /\ fed = {}
    /\ tunWriteCh = <<>>
    /\ recvOutcome = "none"
    /\ ReasmIdle
    /\ SendIdle
    /\ ClientIdle
    /\ ReplayIdle
    /\ IpamIdle
    /\ GatewayIdle

EncodeCall(n) ==
    /\ sender.sendCounter < MaxEncodeCounter
    /\ sender.nextID < MaxEncodeIDs
    /\ \E e \in {EncodePacket(ClientTunnel(sender.mtu), sender, Payload(n))} :
          /\ sender' = e.st
          /\ sent' = <<[p |-> Payload(n), mtu |-> sender.mtu,
                        idBefore |-> sender.nextID, idAfter |-> e.st.nextID,
                        err |-> e.err, out |-> e.out]>>
    /\ UNCHANGED <<wire, fed, tunWriteCh, recvOutcome, reasmVars, sendVars, pump, loopCtl, packetPool, lastRound, hsLimit, cfg,
                   replayVars, ipamVars, gatewayVars>>

EncodeNext == \E n \in 0 .. EncodeMaxLen : EncodeCall(n)

SpecEncode == EncodeInit /\ [][EncodeNext]_vars

\* len of a datagram on the wire: header, ciphertext and tag.
DatagramLen(d) == Len(d.head) + CipherLen(d.body)

MsgTypeOf(d) == ParseHeader(d).hdr.Type

\* The fragment header and slice a Fragment datagram carries.
FragOf(d) == DecodeFragmentHeader(d.body.pt)

\* The datagrams out are Fragment datagrams of payload p under id: all
\* carry the id and total = len(p), each slice has at most fragMax bytes,
\* starts where the one before ended and holds p's bytes of that range,
\* the first starts at 0 and the last ends at len(p).
TilesPayload(out, p, id, fragMax) ==
    /\ Len(out) > 0
    /\ \A k \in 1 .. Len(out) :
          /\ MsgTypeOf(out[k]) = MsgFragment
          /\ FragOf(out[k]).err = "nil"
          /\ FragOf(out[k]).id = id
          /\ FragOf(out[k]).total = Len(p)
          /\ Len(FragOf(out[k]).payload) <= fragMax
          /\ Len(FragOf(out[k]).payload) > 0
          /\ FragOf(out[k]).offset =
                (IF k = 1 THEN 0
                 ELSE FragOf(out[k - 1]).offset + Len(FragOf(out[k - 1]).payload))
          /\ FragOf(out[k]).payload =
                Slice(p, FragOf(out[k]).offset,
                      FragOf(out[k]).offset + Len(FragOf(out[k]).payload))
    /\ FragOf(out[Len(out)]).offset + Len(FragOf(out[Len(out)]).payload) = Len(p)

\* What the encode rule asks of a call h with plaintext MTU M.
EncodedByRule(h, M) ==
    /\ h.err = "nil"
    /\ \A k \in 1 .. Len(h.out) : DatagramLen(h.out[k]) <= h.mtu
    /\ IF Len(h.p) <= M
       THEN /\ Len(h.out) = 1
            /\ MsgTypeOf(h.out[1]) = MsgData
            /\ h.out[1].body.pt = h.p
            /\ h.idAfter = h.idBefore
       ELSE /\ h.idAfter = h.idBefore + 1
            /\ TilesPayload(h.out, h.p, h.idAfter, M - fragHeaderLen)

LoopsInit ==
    /\ loopCtl = [ctxDone |-> FALSE, recv |-> "head", send |-> "run", i |-> 0]
    /\ BuffersPooled
    /\ ServerIdle
    /\ pump = [running |-> FALSE, err |-> "none", last |-> "none"]
    /\ SendIdle
    /\ TunnelIdle
    /\ ReasmIdle
    /\ ReplayIdle
    /\ IpamIdle
    /\ GatewayIdle

loopsRest == <<issued, sealed, pump, packetPool, lastRound, hsLimit, cfg, reasmVars, tunnelVars, replayVars, ipamVars,
               gatewayVars>>

\* The stream's context is cancelled.
CtxCancel ==
    /\ ~loopCtl.ctxDone
    /\ loopCtl' = [loopCtl EXCEPT !.ctxDone = TRUE]
    /\ UNCHANGED <<sendCh, dgCh, enc, closedVars, loopsRest>>

\* tunReadLoop: Enqueue on a send queue with room
LoopEnqueue ==
    /\ Len(sendCh) < SendQueue
    /\ sendCh' = SelectSend(sendCh, SendQueue, Payload(1)).ch
    /\ UNCHANGED <<dgCh, enc, closedVars, loopCtl, loopsRest>>

\* recvLoop's select: ctx.Done (Close and return), closed (return), or the
\* default when neither is ready.
RecvSelect ==
    /\ loopCtl.recv = "head"
    /\ IF loopCtl.ctxDone
       THEN /\ SessionClose("context")
            /\ loopCtl' = [loopCtl EXCEPT !.recv = "done"]
       ELSE /\ UNCHANGED closedVars
            /\ loopCtl' = [loopCtl EXCEPT !.recv = IF sendClosed THEN "done"
                                                   ELSE "receive"]
    /\ UNCHANGED <<sendCh, dgCh, enc, loopsRest>>

\* ReceiveDatagram returns a datagram; the round ends in a drop or in the
\* non-blocking send to the interface write channel.
RecvDatagram ==
    /\ loopCtl.recv = "receive"
    /\ loopCtl' = [loopCtl EXCEPT !.recv = "head"]
    /\ UNCHANGED <<sendCh, dgCh, enc, closedVars, loopsRest>>

\* ReceiveDatagram returns an error: the transport has failed, or the
\* context is cancelled and the blocked call returns.
RecvError ==
    /\ loopCtl.recv = "receive"
    /\ SessionClose(IF loopCtl.ctxDone THEN "context" ELSE "transport")
    /\ loopCtl' = [loopCtl EXCEPT !.recv = "done"]
    /\ UNCHANGED <<sendCh, dgCh, enc, loopsRest>>

\* The blocked ReceiveDatagram returns because the context is cancelled.
RecvUnblocked == loopCtl.ctxDone /\ RecvError

\* encodeLoop takes a packet, in its select or in its batch loop;
\* processEncode drops it on the limiter's word or encodes it and goes to
\* enqueueDatagram.
WorkerTake(w, allow) ==
    /\ \/ enc[w].pc = "idle"
       \/ enc[w].pc = "batch" /\ enc[w].i < SendBatch
    /\ sendCh # <<>>
    /\ sendCh' = Tail(sendCh)
    /\ enc' = [enc EXCEPT ![w] =
                  [@ EXCEPT !.i = IF enc[w].pc = "idle" THEN 1 ELSE @ + 1,
                            !.pc = IF allow THEN "emit" ELSE "batch",
                            !.out = IF allow THEN Head(sendCh) ELSE <<>>]]
    /\ UNCHANGED <<dgCh, closedVars, loopCtl, loopsRest>>

\* enqueueDatagram's case <-s.closed, as it would be if it were missing.
EmitNeverSeesClosed == FALSE

\* enqueueDatagram's case <-s.closed is ready
EmitSeesClosed == sendClosed

\* enqueueDatagram: the datagram goes to the queue
WorkerEmit(w) ==
    /\ enc[w].pc = "emit"
    /\ Len(dgCh) < DgQueue
    /\ dgCh' = Append(dgCh, enc[w].out)
    /\ enc' = [enc EXCEPT ![w] = [@ EXCEPT !.pc = "batch", !.out = <<>>]]
    /\ UNCHANGED <<sendCh, closedVars, loopCtl, loopsRest>>

\* enqueueDatagram: session closed; processEncode calls Close and the
\* worker returns
WorkerEmitClosed(w) ==
    /\ enc[w].pc = "emit"
    /\ EmitSeesClosed
    /\ enc' = [enc EXCEPT ![w] = [@ EXCEPT !.pc = "done"]]
    /\ UNCHANGED <<sendCh, dgCh, closedVars, loopCtl, loopsRest>>

WorkerBatchBreak(w) ==
    /\ enc[w].pc = "batch"
    /\ enc[w].i >= SendBatch \/ sendCh = <<>>
    /\ enc' = [enc EXCEPT ![w] = [@ EXCEPT !.pc = "idle"]]
    /\ UNCHANGED <<sendCh, dgCh, closedVars, loopCtl, loopsRest>>

\* encodeLoop's select: ctx.Done (Close and return) or closed (return)
WorkerReturn(w) ==
    /\ enc[w].pc = "idle"
    /\ \/ loopCtl.ctxDone /\ SessionClose("context")
       \/ sendClosed /\ UNCHANGED closedVars
    /\ enc' = [enc EXCEPT ![w] = [@ EXCEPT !.pc = "done"]]
    /\ UNCHANGED <<sendCh, dgCh, loopCtl, loopsRest>>

\* sendLoop takes a datagram, in its select or in its batch loop, and
\* sendDatagram hands it to the transport, which takes it or fails.
SendTake(ok) ==
    /\ \/ loopCtl.send = "run"
       \/ loopCtl.send = "batch" /\ loopCtl.i < SendBatch
    /\ dgCh # <<>>
    /\ dgCh' = Tail(dgCh)
    /\ IF ok
       THEN /\ loopCtl' = [loopCtl EXCEPT
                             !.send = "batch",
                             !.i = IF loopCtl.send = "run" THEN 1 ELSE @ + 1]
            /\ UNCHANGED closedVars
       ELSE /\ loopCtl' = [loopCtl EXCEPT !.send = "done"]
            /\ SessionClose("transport")
    /\ UNCHANGED <<sendCh, enc, loopsRest>>

SendBatchBreak ==
    /\ loopCtl.send = "batch"
    /\ loopCtl.i >= SendBatch \/ dgCh = <<>>
    /\ loopCtl' = [loopCtl EXCEPT !.send = "run"]
    /\ UNCHANGED <<sendCh, dgCh, enc, closedVars, loopsRest>>

\* sendLoop's select: ctx.Done (Close and return) or closed (return)
SendReturn ==
    /\ loopCtl.send = "run"
    /\ \/ loopCtl.ctxDone /\ SessionClose("context")
       \/ sendClosed /\ UNCHANGED closedVars
    /\ loopCtl' = [loopCtl EXCEPT !.send = "done"]
    /\ UNCHANGED <<sendCh, dgCh, enc, loopsRest>>

RecvStep == RecvSelect \/ RecvDatagram \/ RecvError

WorkerStep(w) ==
    \/ \E allow \in BOOLEAN : WorkerTake(w, allow)
    \/ WorkerEmit(w)
    \/ WorkerEmitClosed(w)
    \/ WorkerBatchBreak(w)
    \/ WorkerReturn(w)

SendStep ==
    \/ \E ok \in BOOLEAN : SendTake(ok)
    \/ SendBatchBreak
    \/ SendReturn

LoopsNext ==
    \/ CtxCancel
    \/ LoopEnqueue
    \/ RecvStep
    \/ \E w \in Workers : WorkerStep(w)
    \/ SendStep

SpecLoops == LoopsInit /\ [][LoopsNext]_vars

\* Scheduling.  A goroutine that can take a step takes one in the end: weak
\* fairness of each loop's steps, except for what only the peer causes (a
\* datagram arriving, the transport failing).  A select with several ready
\* cases picks one of them at random, so a case that is ready again and
\* again is picked in the end: strong fairness of the return cases.  A
\* blocked transport call returns once the context is cancelled.
LoopsFairness ==
    /\ WF_vars(RecvSelect)
    /\ WF_vars(RecvUnblocked)
    /\ \A w \in Workers :
          /\ WF_vars(WorkerStep(w))
          /\ SF_vars(WorkerReturn(w))
    /\ WF_vars(SendBatchBreak \/ SendReturn \/ \E ok \in BOOLEAN : SendTake(ok))
    /\ SF_vars(SendReturn)

SpecLoopsFair == SpecLoops /\ LoopsFairness

AllLoopsExited ==
    /\ loopCtl.recv = "done"
    /\ loopCtl.send = "done"
    /\ \A w \in Workers : enc[w].pc = "done"

\* C23: once the stream context is cancelled, eventually Close has been
\* called and recvLoop, every encodeLoop worker and sendLoop have
\* returned, whatever each was doing when the context was cancelled.
C23_CancelEndsLoops ==
    loopCtl.ctxDone ~> (sendClosed /\ AllLoopsExited)

\* The context was cancelled, the session was closed for it, every loop
\* has returned, and one worker has returned out of enqueueDatagram with
\* its datagram still in hand while the datagram queue was full.
C23_Witness ==
    /\ loopCtl.ctxDone
    /\ closeErr = "context"
    /\ AllLoopsExited
    /\ \E w \in Workers : enc[w].out # <<>>
    /\ Len(dgCh) = DgQueue

(***************************************************************************)
(* Specification of the session table on its own: TableShards shards, Add  *)
(* and Remove calls of concurrent callers, and Snapshot calls that read    *)
(* the shards one after the other, each under that shard's read lock.      *)
(* During a Snapshot call sweep.instants collects the table's contents at  *)
(* every instant from the call to the return.                              *)
(***************************************************************************)
TableShards == 2

\* Session h of the table has the h-th address after the gateway's, so
\* that neighbours fall into different shards.
TableIP(h) == GatewayIP + h

RegisteredIn(t) == UNION {{t[i][k] : k \in DOMAIN t[i]} : i \in DOMAIN t}

TableInit ==
    /\ shards = newSessionTable(TableShards)
    /\ activeSessions = 0
    /\ HandshakesIdle
    /\ DataIdle
    /\ ReplayIdle
    /\ IpamIdle

tableRest == <<dataVars, replayVars, ipamVars, activeSessions, hs, sess, loops, now,
               hist>>

\* The instants of a Snapshot call under way, with the table t added.
Instant(t) ==
    IF sweep.pc = "snapshot"
    THEN [sweep EXCEPT !.instants = @ \cup {RegisteredIn(t)}]
    ELSE sweep

TableAdd(h) ==
    /\ h \notin RegisteredIn(shards)
    /\ shards' = Add(shards, h, TableIP(h))
    /\ sweep' = Instant(Add(shards, h, TableIP(h)))
    /\ UNCHANGED tableRest

TableRemove(h) ==
    /\ h \in RegisteredIn(shards)
    /\ shards' = Remove(shards, TableIP(h))
    /\ sweep' = Instant(Remove(shards, TableIP(h)))
    /\ UNCHANGED tableRest

\* Snapshot is called
SnapshotCall ==
    /\ sweep.pc = "idle"
    /\ sweep' = [pc |-> "snapshot", now |-> 0, shard |-> 0, list |-> {},
                 target |-> 0, instants |-> {RegisteredIn(shards)}]
    /\ UNCHANGED <<shards, tableRest>>

\* Snapshot's loop body for the next shard: RLock, append the shard's
\* sessions, RUnlock; after the last shard the call returns.
SnapshotShard ==
    /\ sweep.pc = "snapshot"
    /\ LET i == sweep.shard
           got == sweep.list \cup {shards[i][k] : k \in DOMAIN shards[i]}
       IN  sweep' = IF i + 1 < Cardinality(DOMAIN shards)
                    THEN [sweep EXCEPT !.shard = i + 1, !.list = got]
                    ELSE [sweep EXCEPT !.pc = "returned", !.list = got]
    /\ UNCHANGED <<shards, tableRest>>

\* The caller is done with the list
SnapshotDone ==
    /\ sweep.pc = "returned"
    /\ sweep' = [pc |-> "idle", now |-> 0, shard |-> 0, list |-> {}, target |-> 0]
    /\ UNCHANGED <<shards, tableRest>>

TableNext ==
    \/ \E h \in Handshakes : TableAdd(h) \/ TableRemove(h)
    \/ SnapshotCall
    \/ SnapshotShard
    \/ SnapshotDone

SpecTable == TableInit /\ [][TableNext]_vars

\* C25: the list Snapshot returns is the set of sessions registered in the
\* whole table at one instant between the call and the return, whatever
\* Add and Remove calls run meanwhile.
C25_SnapshotIsInstant ==
    sweep.pc = "returned" => sweep.list \in sweep.instants

(***************************************************************************)
(* Specification of the packet buffers: tunReadLoop and one session's      *)
(* recvLoop take buffers from Server.packetPool; encodeLoop and            *)
(* tunWriteLoop return the buffers they receive.  A buffer is named by its *)
(* backing array; 0 names an array that does not come from the pool.  In   *)
(* this specification sendCh and tunWriteCh hold the backing arrays of the *)
(* packets queued.                                                         *)
(***************************************************************************)
HeapArray == 0

\* What DecodeDatagramInto(dst[:0], b) may return, one group per return
\* statement: the array the packet lies in, its length against cap(dst),
\* pooled and the error.
DecodeResults ==
    {[at |-> "nil", size |-> "none", pooled |-> p, err |-> e] :
        p \in BOOLEAN, e \in {"nil", "replay", "other"}}
    \cup {[at |-> "dst", size |-> s, pooled |-> TRUE, err |-> "nil"] :
             s \in {"none", "fits"}}
    \cup {[at |-> "heap", size |-> "over", pooled |-> FALSE, err |-> "nil"]}

\* What tun.Read and PacketDestV4 may give tunReadLoop.
TunReads ==
    {[got |-> g, dst4 |-> 0] : g \in {"error", "zero", "bad_packet"}}
    \cup {[got |-> "packet", dst4 |-> d] : d \in {SessionIP4, OtherIP4}}

BuffersInit ==
    /\ BuffersPooled
    /\ ServerIdle
    /\ loopCtl = [ctxDone |-> FALSE, recv |-> "head", send |-> "off", i |-> 0,
                  tun |-> "run", encode |-> "run"]
    /\ pump = [running |-> FALSE, err |-> "none", last |-> "none"]
    /\ SendIdle
    /\ TunnelIdle
    /\ ReasmIdle
    /\ ReplayIdle
    /\ pool = Acquire(New(PoolNetwork, PoolPrefixLen, {GatewayIP}).pool).pool
    /\ held = [a \in PoolRange |-> 0]
    /\ lastPool = [op |-> "none", err |-> "nil", ip |-> 0, usedBefore |-> FALSE]
    /\ shards = Add(newSessionTable(SessionShards), TunnelSession, SessionIP4)
    /\ activeSessions = 1
    /\ HandshakesIdle

buffersRest == <<dgCh, enc, issued, sealed, pump, hsLimit, cfg, reasmVars, replayVars, sender,
                 wire, sent, fed, recvOutcome, held, lastPool, hs, sess, loops,
                 sweep, now, hist>>

\* Pool.Get and Pool.Put on the pool p; Put drops an array that is not as
\* large as the pool's buffers, and the arrays of the heap are not counted.
Get(p, b) == [p EXCEPT ![b] = @ - 1]

Put(p, b) == IF b = HeapArray THEN p ELSE [p EXCEPT ![b] = @ + 1]

RECURSIVE PutTimes(_, _, _)
PutTimes(p, b, n) == IF n = 0 THEN p ELSE PutTimes(Put(p, b), b, n - 1)

\* How often a round of tunReadLoop that ended with outcome calls
\* packetPool.Put(pkt).
TunReadPutsAlways(outcome) == 1

TunReadPuts(outcome) == IF outcome = "queued" THEN 0 ELSE 1

\* One round of tunReadLoop past the context check: the path taken for the
\* result read of tun.Read and PacketDestV4.
TunReadPath(read, t, ch) ==
    IF read.got = "error" THEN "tun_read_error"
    ELSE IF read.got = "zero" THEN "empty"
    ELSE IF read.got = "bad_packet" THEN "bad_packet"
    ELSE IF GetByIP(t, read.dst4) = 0 THEN "no_session"
    ELSE IF SelectSend(ch, SendQueue, 0).ok THEN "queued"
    ELSE "queue_full"

TunReadRound(read) ==
    /\ loopCtl.tun = "run"
    /\ \E b \in {c \in PacketBuffers : packetPool[c] > 0},
          outcome \in {TunReadPath(read, shards, sendCh)} :
          /\ packetPool' = PutTimes(Get(packetPool, b), b, TunReadPuts(outcome))
          /\ sendCh' = IF outcome = "queued"
                       THEN SelectSend(sendCh, SendQueue, b).ch
                       ELSE sendCh
          /\ lastRound' = [loop |-> "tunRead", buf |-> b, outcome |-> outcome,
                           puts |-> TunReadPuts(outcome),
                           queues |-> IF outcome = "queued" THEN <<"sendCh">>
                                      ELSE <<>>]
          /\ loopCtl' = [loopCtl EXCEPT !.tun = IF outcome = "tun_read_error"
                                                THEN "done" ELSE @]
    /\ UNCHANGED <<tunWriteCh, closedVars, shards, pool, activeSessions,
                   buffersRest>>

\* recvLoop: the select at the head of the loop, the context not cancelled
BufRecvHead ==
    /\ loopCtl.recv = "head"
    /\ loopCtl' = [loopCtl EXCEPT !.recv = IF sendClosed THEN "done"
                                           ELSE "receive"]
    /\ UNCHANGED <<packetPool, lastRound, sendCh, tunWriteCh, closedVars, shards,
                   pool, activeSessions, buffersRest>>

\* recvLoop from pool.Get to the select on tunWriteCh, for the result dec
\* of DecodeDatagramInto and the source src of the packet: the drop that
\* ends the round, or "select" with the array the packet lies in.
RecvPath(dec, src) ==
    IF dec.err = "replay" THEN [outcome |-> "replay", at |-> "nil"]
    ELSE IF dec.err # "nil" THEN [outcome |-> "decode", at |-> "nil"]
    ELSE IF dec.size = "none" THEN [outcome |-> "empty", at |-> "nil"]
    ELSE IF ~dec.pooled /\ dec.size = "over"
         THEN [outcome |-> "decode_oversize", at |-> "nil"]
    ELSE IF src = "bad" THEN [outcome |-> "bad_packet", at |-> "nil"]
    ELSE IF src = "other" THEN [outcome |-> "src_mismatch", at |-> "nil"]
    ELSE [outcome |-> "select", at |-> IF ~dec.pooled THEN "dst" ELSE dec.at]

\* The cases of the select on tunWriteCh that can be taken: the send when
\* the channel has room, <-s.closed when the session is closed, default
\* when neither is ready.
SelectCases(ch, closed) ==
    IF Len(ch) >= TunQueue /\ ~closed THEN {"tun_backpressure"}
    ELSE {"in" : x \in {y \in {1} : Len(ch) < TunQueue}}
         \cup {"closed" : x \in {y \in {1} : closed}}

\* One round of recvLoop once ReceiveDatagram has returned a datagram that
\* the rate limiter lets in.
RecvRound(dec, src) ==
    /\ loopCtl.recv = "receive"
    /\ \E b \in {c \in PacketBuffers : packetPool[c] > 0},
          path \in {RecvPath(dec, src)} :
       \E outcome \in IF path.outcome = "select"
                      THEN SelectCases(tunWriteCh, sendClosed)
                      ELSE {path.outcome} :
       \E pkt \in {IF path.at = "dst" THEN b ELSE HeapArray} :
          /\ packetPool' = IF outcome = "in" THEN Get(packetPool, b)
                           ELSE IF path.outcome = "select"
                           THEN Put(Get(packetPool, b), pkt)
                           ELSE Put(Get(packetPool, b), b)
          /\ tunWriteCh' = IF outcome = "in" THEN Append(tunWriteCh, pkt)
                           ELSE tunWriteCh
          /\ lastRound' = [loop |-> "recv", buf |-> b, outcome |-> outcome,
                           puts |-> IF outcome = "in" \/ (path.outcome = "select"
                                                          /\ pkt # b)
                                    THEN 0 ELSE 1,
                           queues |-> IF outcome = "in" /\ pkt = b
                                      THEN <<"tunWriteCh">> ELSE <<>>]
          /\ loopCtl' = [loopCtl EXCEPT !.recv = IF outcome = "closed"
                                                 THEN "done" ELSE "head"]
    /\ UNCHANGED <<sendCh, closedVars, shards, pool, activeSessions, buffersRest>>

\* The rate limiter refuses the datagram: no buffer is taken.
RecvRateIn ==
    /\ loopCtl.recv = "receive"
    /\ loopCtl' = [loopCtl EXCEPT !.recv = "head"]
    /\ UNCHANGED <<packetPool, lastRound, sendCh, tunWriteCh, closedVars, shards,
                   pool, activeSessions, buffersRest>>

\* ReceiveDatagram fails: recvLoop closes the session and returns
BufRecvFail ==
    /\ loopCtl.recv = "receive"
    /\ IF sendClosed
       THEN UNCHANGED <<closedVars, shards, pool, activeSessions>>
       ELSE CloseAndUnregister("transport")
    /\ loopCtl' = [loopCtl EXCEPT !.recv = "done"]
    /\ UNCHANGED <<packetPool, lastRound, sendCh, tunWriteCh, buffersRest>>

\* sessionSweepLoop closes the session
BufSweepClose ==
    /\ ~sendClosed
    /\ CloseAndUnregister("idle timeout")
    /\ UNCHANGED <<packetPool, lastRound, loopCtl, sendCh, tunWriteCh,
                   buffersRest>>

\* encodeLoop: the select takes <-s.closed once the session is closed,
\* also while sendCh holds packets, and the worker returns
BufEncodeExit ==
    /\ loopCtl.encode = "run"
    /\ sendClosed
    /\ loopCtl' = [loopCtl EXCEPT !.encode = "done"]
    /\ UNCHANGED <<packetPool, lastRound, sendCh, tunWriteCh, closedVars, shards,
                   pool, activeSessions, buffersRest>>

\* encodeLoop: the select takes a packet from sendCh; processEncode
\* returns the packet's buffer on each path
BufEncode ==
    /\ loopCtl.encode = "run"
    /\ sendCh # <<>>
    /\ sendCh' = Tail(sendCh)
    /\ packetPool' = Put(packetPool, Head(sendCh))
    /\ UNCHANGED <<lastRound, loopCtl, tunWriteCh, closedVars, shards, pool,
                   activeSessions, buffersRest>>

\* tunWriteLoop: the packet is written and its buffer returned
BufTunWrite ==
    /\ tunWriteCh # <<>>
    /\ tunWriteCh' = Tail(tunWriteCh)
    /\ packetPool' = Put(packetPool, Head(tunWriteCh))
    /\ UNCHANGED <<lastRound, loopCtl, sendCh, closedVars, shards, pool,
                   activeSessions, buffersRest>>

BuffersNext ==
    \/ \E read \in TunReads : TunReadRound(read)
    \/ BufRecvHead
    \/ \E dec \in DecodeResults, src \in {"bad", "other", "mine"} :
          RecvRound(dec, src)
    \/ RecvRateIn
    \/ BufRecvFail
    \/ BufSweepClose
    \/ BufEncode
    \/ BufEncodeExit
    \/ BufTunWrite

SpecBuffers == BuffersInit /\ [][BuffersNext]_vars

\* The paths of a round on which the packet is not passed on.
NotEnqueued ==
    {"tun_read_error", "empty", "bad_packet", "no_session", "queue_full",
     "replay", "decode", "decode_oversize", "src_mismatch", "tun_backpressure",
     "closed"}

\* How often the array b is in the queue ch.
Queued(ch, b) == Cardinality({i \in 1 .. Len(ch) : ch[i] = b})

\* C26: a buffer that tunReadLoop or recvLoop took from the pool leaves the
\* round on one path: it is passed to one queue and not returned, or it is
\* returned once and not queued; on each path that does not pass the packet
\* on it is returned.  So every buffer is at all times in one place, the
\* pool or one slot of one queue, and no array of the heap is queued.
C26_BufferLeavesOnce ==
    /\ lastRound.loop # "none" =>
          /\ lastRound.puts + Len(lastRound.queues) = 1
          /\ lastRound.outcome \in NotEnqueued =>
                lastRound.puts = 1 /\ lastRound.queues = <<>>
          /\ lastRound.outcome \notin NotEnqueued =>
                /\ lastRound.puts = 0
                /\ lastRound.queues =
                      <<IF lastRound.loop = "recv" THEN "tunWriteCh" ELSE "sendCh">>
    /\ \A b \in PacketBuffers :
          packetPool[b] + Queued(sendCh, b) + Queued(tunWriteCh, b) = 1
    /\ Queued(sendCh, HeapArray) + Queued(tunWriteCh, HeapArray) = 0

\* Rounds of both loops have dropped and passed on packets: a buffer is
\* queued by each loop's last round or was returned on a drop while the other
\* queue holds a buffer.
C26_Witness ==
    /\ lastRound.outcome \in {"queue_full", "tun_backpressure", "closed"}
    /\ lastRound.puts = 1
    /\ sendCh # <<>>
    /\ tunWriteCh # <<>>

(***************************************************************************)
(* Specification of connectHandler up to the session: the checks of the    *)
(* request, the handshake limiter, the body, the address and the           *)
(* negotiation, for concurrent requests.  What follows the negotiation is  *)
(* taken in one step here (SpecGateway has it in full).  hs[h] carries the *)
(* request and the negotiated MTU besides the handler's locals.            *)
(***************************************************************************)
LimiterMaxTime == 2
MaxSessions == 1
Token == "token"
HandshakeNonceSize == 16
Hosts == {"198.51.100.1", "198.51.100.2"}
ServerMTUs == {1200, 1400}

\* A client nonce as sent: the number of its characters and whether all of
\* them are of the base64 alphabet.
GoodNonce == [chars |-> 22, alphabet |-> TRUE]

NonceStrings ==
    {[chars |-> n, alphabet |-> TRUE] : n \in {20, 21, 22}}
    \cup {[chars |-> 22, alphabet |-> FALSE]}

\* base64.RawStdEncoding.DecodeString: four characters give three bytes,
\* a rest of two or three characters one or two bytes, a rest of one
\* character is an error; result is the number of bytes decoded.
DecodeNonce(str) ==
    IF ~str.alphabet \/ str.chars % 4 = 1
    THEN [err |-> "illegal base64 data", len |-> 0]
    ELSE [err |-> "nil", len |-> (str.chars * 6) \div 8]

GoodBody == [json |-> TRUE, version |-> ProtocolVersion, nonce |-> GoodNonce,
             mtu |-> 0]

\* Request bodies: mtu is 0 when the client leaves the field out.
Bodies ==
    {[GoodBody EXCEPT !.mtu = m] : m \in {0 - 1, 0, 1300, 1500}}
    \cup {[GoodBody EXCEPT !.nonce = n] : n \in NonceStrings}
    \cup {[GoodBody EXCEPT !.json = FALSE], [GoodBody EXCEPT !.version = 2]}

GoodRequest == [method |-> "POST", token |-> Token, host |-> "198.51.100.1",
                http3 |-> TRUE, body |-> GoodBody]

Requests ==
    {[GoodRequest EXCEPT !.body = b] : b \in Bodies}
    \cup {[GoodRequest EXCEPT !.host = a] : a \in Hosts}
    \cup {[GoodRequest EXCEPT !.host = a, !.token = "other"] : a \in Hosts}
    \cup {[GoodRequest EXCEPT !.method = "GET"],
          [GoodRequest EXCEPT !.http3 = FALSE],
          [GoodRequest EXCEPT !.token = "other", !.body.json = FALSE]}

\* The requests made of a server that is not ready.
EarlyRequests == {GoodRequest, [GoodRequest EXCEPT !.token = "other"]}

\* The requests of the connection h: the first connection makes every
\* request, the others those with a good body, from every host.
RequestsOf(h) ==
    IF h = 1 THEN Requests ELSE {r \in Requests : r.body = GoodBody /\ r.http3}

DecodeConnectRequest(body) ==
    IF ~body.json THEN [err |-> "decode connect request", MTU |-> 0]
    ELSE IF body.version # ProtocolVersion
    THEN [err |-> "unsupported protocol version", MTU |-> 0]
    ELSE [err |-> "nil", MTU |-> IF body.mtu <= 0 THEN DefaultMTU ELSE body.mtu]

\* rate.Limiter.Allow at the time t on a bucket of the size burst that
\* gains one token per unit of time.
LimiterAllow(lim, burst, t) ==
    LET gained == lim.tokens + (t - lim.last)
        have == IF gained > burst THEN burst ELSE gained
    IN  IF have >= 1
        THEN [ok |-> TRUE, lim |-> [tokens |-> have - 1, last |-> t]]
        ELSE [ok |-> FALSE, lim |-> [tokens |-> have, last |-> t]]

\* sweepLocked as it would be if it deleted every entry.
StaleAlways(t, last) == TRUE

\* sweepLocked's test of an entry last used at the time last.
Stale(t, last) == t - last > LimiterTTL

ipSweepLocked(entries, t) ==
    [ip \in {k \in DOMAIN entries : ~Stale(t, entries[k].last)} |-> entries[ip]]

\* ipRateLimiter.Allow(ip) at the time t
IPAllow(l, ip, t) ==
    LET swept == IF t - l.lastSweep > LimiterTTL
                 THEN [l EXCEPT !.entries = ipSweepLocked(@, t), !.lastSweep = t]
                 ELSE l
        entry == IF ip \in DOMAIN swept.entries
                 THEN swept.entries[ip]
                 ELSE [limiter |-> NewLimiter(IPBurst, t), last |-> t]
        r == LimiterAllow(entry.limiter, IPBurst, t)
    IN  [ok |-> r.ok,
         l |-> [swept EXCEPT
                  !.entries = MapSet(@, ip, [limiter |-> r.lim, last |-> t])]]

\* A request passes the token check only with the configured token.
TokenAlwaysMatches(req) == TRUE

TokenMatches(req) == req.token = Token

\* The first of connectHandler's checks of the request itself to fail,
\* as the status it answers with; 0 when all pass.
RequestRefusal(ready, req) ==
    IF ~ready THEN 503
    ELSE IF req.method # "POST" THEN 405
    ELSE IF ~TokenMatches(req) THEN 401
    ELSE 0

NoRequest == [method |-> "none", token |-> "", host |-> "", http3 |-> FALSE,
              body |-> GoodBody]

\* The server before its first request, the address pool apart.
HandshakeStart ==
    /\ hsLimit = newHandshakeLimiter
    /\ cfg \in {[MTU |-> m, MaxSessions |-> MaxSessions] : m \in ServerMTUs}
    /\ hs = [h \in Handshakes |->
                [pc |-> "idle", ip |-> 0, releaseIP |-> FALSE, status |-> 0,
                 ready |-> TRUE, req |-> NoRequest, mtu |-> 0]]
    /\ sess = [h \in Handshakes |->
                [ip4 |-> 0, closeOnce |-> "new", step |-> "none",
                 closed |-> FALSE, lastSeen |-> 0]]
    /\ loops = [h \in Handshakes |-> [l \in Loops |-> "off"]]
    /\ sweep = [pc |-> "idle", now |-> 0, shard |-> 0, list |-> {}, target |-> 0]
    /\ now = 0
    /\ hist = [h \in Handshakes |->
                [closes |-> 0, callbacks |-> 0, releases |-> <<>>,
                 acquired |-> 0, added |-> FALSE, registered |-> FALSE]]
    /\ shards = newSessionTable(SessionShards)
    /\ activeSessions = 0
    /\ held = [a \in PoolRange |-> 0]
    /\ lastPool = [op |-> "none", err |-> "nil", ip |-> 0, usedBefore |-> FALSE]
    /\ ReasmIdle
    /\ TunnelIdle
    /\ SendIdle
    /\ pump = [running |-> FALSE, err |-> "none", last |-> "none"]
    /\ loopCtl = [ctxDone |-> FALSE, recv |-> "off", send |-> "off", i |-> 0]
    /\ BuffersPooled
    /\ ReplayIdle

HandshakeInit ==
    /\ HandshakeStart
    /\ pool = ServerPool.pool

handshakeRest == <<reasmVars, tunnelVars, sendVars, pump, loopCtl, packetPool,
                   lastRound, cfg, replayVars, held, lastPool, sess, loops, sweep>>

\* The clock moves on.
LimiterTick ==
    /\ now < LimiterMaxTime
    /\ now' = now + 1
    /\ UNCHANGED <<hs, hsLimit, shards, activeSessions, pool, hist, handshakeRest>>

\* connectHandler is called with the request req: the checks of readiness,
\* method and token, then hsLimit.Allow's call of the global bucket.
HsRequest(h, ready, req) ==
    /\ hs[h].pc = "idle"
    /\ \E refused \in {RequestRefusal(ready, req)},
          g \in {LimiterAllow(hsLimit.global, GlobalBurst, now)} :
          IF refused # 0
          THEN /\ hs' = [hs EXCEPT ![h].pc = "done", ![h].status = refused,
                                   ![h].ready = ready, ![h].req = req]
               /\ UNCHANGED hsLimit
          ELSE /\ hsLimit' = [hsLimit EXCEPT !.global = g.lim]
               /\ hs' = [hs EXCEPT ![h].pc = IF g.ok THEN "host" ELSE "done",
                                   ![h].status = IF g.ok THEN 0 ELSE 429,
                                   ![h].ready = ready, ![h].req = req]
    /\ UNCHANGED <<now, shards, activeSessions, pool, hist, handshakeRest>>

\* hsLimit.Allow's call of perIP.Allow with the remote host
HsHost(h) ==
    /\ hs[h].pc = "host"
    /\ \E r \in {IF hs[h].req.host # ""
                 THEN IPAllow(hsLimit, hs[h].req.host, now)
                 ELSE [ok |-> TRUE, l |-> hsLimit]} :
          /\ hsLimit' = r.l
          /\ hs' = [hs EXCEPT ![h].pc = IF r.ok THEN "body" ELSE "done",
                              ![h].status = IF r.ok THEN 0 ELSE 429]
    /\ UNCHANGED <<now, shards, activeSessions, pool, hist, handshakeRest>>

\* The status of the first check between the limiter and the address pool
\* to fail; 0 when all pass.
BodyRefusal(active, req) ==
    IF cfg.MaxSessions > 0 /\ active >= cfg.MaxSessions THEN 503
    ELSE IF ~req.http3 THEN 400
    ELSE IF DecodeConnectRequest(req.body).err # "nil" THEN 400
    ELSE IF DecodeNonce(req.body.nonce).err # "nil" THEN 400
    ELSE 0

HsBody(h) ==
    /\ hs[h].pc = "body"
    /\ \E refused \in {BodyRefusal(activeSessions, hs[h].req)} :
          hs' = [hs EXCEPT ![h].pc = IF refused = 0 THEN "acquire" ELSE "done",
                           ![h].status = refused]
    /\ UNCHANGED <<now, hsLimit, shards, activeSessions, pool, hist, handshakeRest>>

\* The MTU connectHandler settles on for the decoded request's MTU.
NegotiateMTU(serverMTU, reqMTU) ==
    IF reqMTU > 0 /\ reqMTU < serverMTU THEN reqMTU ELSE serverMTU

\* DeriveKeyMaterial's checks
DeriveKeyMaterial(token, clientNonceLen, serverNonceLen) ==
    IF token = "" THEN "token is empty"
    ELSE IF clientNonceLen # HandshakeNonceSize
            \/ serverNonceLen # HandshakeNonceSize
    THEN "nonce must be 16 bytes"
    ELSE "nil"

\* The negotiation and the key derivation; with the keys the session is
\* built, added and counted, the response written and the session started.
HsNegotiate(h) ==
    /\ hs[h].pc = "derive"
    /\ \E err \in {DeriveKeyMaterial(Token, DecodeNonce(hs[h].req.body.nonce).len,
                                     HandshakeNonceSize)},
          mtu \in {NegotiateMTU(cfg.MTU,
                                DecodeConnectRequest(hs[h].req.body).MTU)} :
          IF err # "nil"
          THEN /\ hs' = [hs EXCEPT ![h].pc = "return", ![h].status = 500,
                                   ![h].mtu = mtu]
               /\ UNCHANGED <<shards, activeSessions, hist>>
          ELSE /\ hs' = [hs EXCEPT ![h].pc = "wait", ![h].status = 200,
                                   ![h].mtu = mtu, ![h].releaseIP = FALSE]
               /\ shards' = Add(shards, h, hs[h].ip)
               /\ activeSessions' = activeSessions + 1
               /\ hist' = [hist EXCEPT ![h].registered = TRUE, ![h].added = TRUE]
    /\ UNCHANGED <<now, hsLimit, pool, handshakeRest>>

\* The session is closed: onSessionClose, and the handler goes on to return
HsSessionEnd(h) ==
    /\ hs[h].pc = "wait"
    /\ shards' = Remove(shards, hs[h].ip)
    /\ pool' = Release(pool, hs[h].ip)
    /\ activeSessions' = activeSessions - 1
    /\ hist' = [hist EXCEPT ![h].registered = FALSE,
                            ![h].releases = <<"callback">>]
    /\ hs' = [hs EXCEPT ![h].pc = "return"]
    /\ UNCHANGED <<now, hsLimit, handshakeRest>>

\* The next request is served
HsNext(h) ==
    /\ hs[h].pc = "done"
    /\ hs' = [hs EXCEPT ![h] = [pc |-> "idle", ip |-> 0, releaseIP |-> FALSE,
                                status |-> 0, ready |-> TRUE, req |-> NoRequest,
                                mtu |-> 0]]
    /\ hist' = [hist EXCEPT ![h] = [closes |-> 0, callbacks |-> 0,
                                    releases |-> <<>>, acquired |-> 0,
                                    added |-> FALSE, registered |-> FALSE]]
    /\ UNCHANGED <<now, hsLimit, shards, activeSessions, pool, handshakeRest>>

HandshakeNext ==
    \/ LimiterTick
    \/ \E h \in Handshakes :
          \/ \E req \in RequestsOf(h) : HsRequest(h, TRUE, req)
          \/ \E req \in EarlyRequests : HsRequest(h, FALSE, req)
          \/ HsHost(h)
          \/ HsBody(h)
          \/ HsAcquire(h)
          \/ HsNegotiate(h)
          \/ HsSessionEnd(h)
          \/ HsReturn(h)
          \/ HsNext(h)

SpecHandshake == HandshakeInit /\ [][HandshakeNext]_vars

\* A request made of a ready server with the method POST and a token that
\* is not the configured one.
BadToken(h) ==
    /\ hs[h].ready
    /\ hs[h].req.method = "POST"
    /\ hs[h].req.token # Token

\* C27: a connect request whose token differs from the configured token is
\* answered with 401 at once, and serving it changes nothing: the limiter
\* keeps its tokens and entries, no address is acquired, no session is
\* registered and the count of active sessions stays.
C27_BadTokenChangesNothing ==
    /\ \A h \in Handshakes :
          (hs[h].pc # "idle" /\ BadToken(h)) =>
             /\ hs[h].pc = "done"
             /\ hs[h].status = 401
             /\ hs[h].ip = 0
             /\ hist[h].acquired = 0
             /\ ~hist[h].registered
    /\ [][\A h \in Handshakes :
             (hs[h].pc = "idle" /\ hs'[h].pc # "idle"
              /\ hs'[h].ready /\ hs'[h].req.method = "POST"
              /\ hs'[h].req.token # Token) =>
                UNCHANGED <<hsLimit, pool, shards, activeSessions>>]_vars

\* A request with a bad token is refused while the limiter has given
\* tokens and a session is registered.
C27_Witness ==
    \E h \in Handshakes :
        /\ hs[h].pc = "done"
        /\ BadToken(h)
        /\ hs[h].status = 401
        /\ hsLimit.global.tokens < GlobalBurst
        /\ activeSessions = 1

\* A body that cannot be decoded, or whose client nonce is not the base64
\* encoding of 16 bytes (22 characters of the alphabet).
BadBody(body) ==
    \/ ~body.json
    \/ body.version # ProtocolVersion
    \/ body.nonce # GoodNonce

\* The request of h got as far as the body: it passed the checks of
\* readiness, method, token, limiter, session count and transport.
ReachedBody(h) ==
    /\ hs[h].pc = "done"
    /\ RequestRefusal(hs[h].ready, hs[h].req) = 0
    /\ hs[h].req.http3
    /\ hs[h].status \notin {429, 503}

\* C28: a connect request with a malformed body, or with a client nonce
\* that is not a valid base64 encoding of exactly 16 bytes, is answered
\* with 400, and afterwards holds no address and has no session registered.
C28_BadBodyRefused ==
    \A h \in Handshakes :
        (ReachedBody(h) /\ BadBody(hs[h].req.body)) =>
            /\ hs[h].status = 400
            /\ hs[h].ip = 0
            /\ ~hist[h].registered

\* What holds of these requests: they are answered with 400 or, when the
\* nonce decodes to another length than 16, with 500; the address such a
\* request acquired is released before the handler returns.
BadBodyLeavesNothing ==
    \A h \in Handshakes :
        (ReachedBody(h) /\ BadBody(hs[h].req.body)) =>
            /\ hs[h].status \in {400, 500}
            /\ hs[h].status = 500 =>
                  /\ DecodeNonce(hs[h].req.body.nonce).err = "nil"
                  /\ DecodeNonce(hs[h].req.body.nonce).len # HandshakeNonceSize
                  /\ hist[h].releases = <<"handler">>
            /\ hs[h].status = 400 => hist[h].acquired = 0
            /\ hs[h].ip = 0
            /\ ~hist[h].added

\* The tokens a bucket has at the time t.
Available(lim, burst, t) ==
    IF lim.tokens + (t - lim.last) > burst THEN burst
    ELSE lim.tokens + (t - lim.last)

\* The tokens the bucket of the host ip has at the time t: those of a new
\* bucket if the host has no entry, or an entry that a sweep now removes.
HostAvailable(l, ip, t) ==
    IF /\ ip \in DOMAIN l.entries
       /\ ~(t - l.lastSweep > LimiterTTL /\ t - l.entries[ip].last > LimiterTTL)
    THEN Available(l.entries[ip].limiter, IPBurst, t)
    ELSE IPBurst

\* C29: a handshake passes the limiter only when the global bucket and
\* then the bucket of its remote host each give a token, and is answered
\* with 429 when either has none; a handshake leaves the entry of every
\* other host as it is, unless it evicts it, and an entry is evicted only
\* when it was last used longer ago than the TTL.
C29_LimiterAdmits ==
    [][\A h \in Handshakes :
          /\ (hs[h].pc = "idle" /\ hs'[h].pc = "host") =>
                /\ Available(hsLimit.global, GlobalBurst, now) >= 1
                /\ hsLimit'.global.tokens =
                      Available(hsLimit.global, GlobalBurst, now) - 1
                /\ hsLimit'.entries = hsLimit.entries
          /\ (/\ hs[h].pc = "idle" /\ hs'[h].pc = "done"
              /\ RequestRefusal(hs'[h].ready, hs'[h].req) = 0) =>
                /\ hs'[h].status = 429
                /\ Available(hsLimit.global, GlobalBurst, now) = 0
                /\ hsLimit'.entries = hsLimit.entries
          /\ (hs[h].pc = "host" /\ hs'[h].pc = "body") =>
                /\ HostAvailable(hsLimit, hs[h].req.host, now) >= 1
                /\ hsLimit'.entries[hs[h].req.host].limiter.tokens =
                      HostAvailable(hsLimit, hs[h].req.host, now) - 1
          /\ (hs[h].pc = "host" /\ hs'[h].pc = "done") =>
                /\ hs'[h].status = 429
                /\ HostAvailable(hsLimit, hs[h].req.host, now) = 0
          /\ hs'[h].pc = "body" => hs[h].pc \in {"host", "body"}
          /\ (hs[h].pc = "host" /\ hs'[h].pc # "host") =>
                \A other \in Hosts \ {hs[h].req.host} :
                    IF other \in DOMAIN hsLimit'.entries
                    THEN /\ other \in DOMAIN hsLimit.entries
                         /\ hsLimit'.entries[other] = hsLimit.entries[other]
                    ELSE other \in DOMAIN hsLimit.entries =>
                            now - hsLimit.entries[other].last > LimiterTTL
          /\ \A ip \in DOMAIN hsLimit.entries :
                ip \notin DOMAIN hsLimit'.entries =>
                   now - hsLimit.entries[ip].last > LimiterTTL]_vars

\* The bucket of a host refused a handshake, and both hosts have entries.
C29_Witness ==
    \E h \in Handshakes :
        /\ hs[h].pc = "done"
        /\ hs[h].status = 429
        /\ DOMAIN hsLimit.entries = Hosts
        /\ hsLimit.entries[hs[h].req.host].limiter.tokens = 0
        /\ hsLimit.entries[hs[h].req.host].last < now

\* An entry has been evicted: a host that was admitted has no entry.
C29_WitnessEvicted ==
    \E h \in Handshakes :
        /\ hs[h].pc = "wait"
        /\ hs[h].req.host \notin DOMAIN hsLimit.entries

\* C30: the negotiated MTU is the smaller of the server's and the
\* client's when the client sends a positive mtu, and the server's when
\* the client sends none or one that is not positive.
C30_NegotiatedMTU ==
    \A h \in Handshakes :
        hs[h].status = 200 =>
            hs[h].mtu = IF hs[h].req.body.mtu > 0
                        THEN IF hs[h].req.body.mtu < cfg.MTU
                             THEN hs[h].req.body.mtu ELSE cfg.MTU
                        ELSE cfg.MTU

\* What holds: a client that sends no positive mtu is taken to ask for the
\* default, so the server's MTU is negotiated only when it is no larger.
NegotiatedMTUWithDefault ==
    \A h \in Handshakes :
        hs[h].status = 200 =>
            LET asked == IF hs[h].req.body.mtu > 0 THEN hs[h].req.body.mtu
                         ELSE DefaultMTU
            IN  hs[h].mtu = IF asked < cfg.MTU THEN asked ELSE cfg.MTU

(***************************************************************************)
(* Specification of the wire header on its own: a header is written, a     *)
(* payload appended, the bytes cut short or changed in one place, and the  *)
(* result parsed.  sent holds the last such call.                          *)
(***************************************************************************)
Headers ==
    {[Version |-> v, Type |-> ty, Flags |-> f, SessionID |-> s, Counter |-> c] :
        v \in {ProtocolVersion, 9}, ty \in {MsgData, 255}, f \in {1},
        s \in {42, 2147483647}, c \in {7, 16777221}}

Tails == {<<>>, <<9>>, <<116, 101, 115, 116>>}

\* Lengths the bytes are cut to; a length past the end cuts nothing.
Cuts == {3, HeaderLen - 1, HeaderLen, HeaderLen + 4}

\* The byte replaced (0 for none) by the letter X.
Flips == {0, 1, 4}

\* AppendHeader(dst, h)
AppendHeader(dst, h) == dst \o WriteHeader(h)

\* b with the byte at i set to v
SetByte(b, i, v) ==
    IF i = 0 \/ i > Len(b) THEN b ELSE [b EXCEPT ![i] = v]

\* ParseHeader(b) for the bytes b: the error, the header and the rest
ParseBytes(b) ==
    LET n == IF Len(b) < HeaderLen THEN Len(b) ELSE HeaderLen
        parsed == ParseHeader([head |-> SubSeq(b, 1, n),
                               body |-> SubSeq(b, n + 1, Len(b))])
    IN  [err |-> parsed.err, hdr |-> parsed.hdr,
         rest |-> IF parsed.err = "nil" THEN SubSeq(b, HeaderLen + 1, Len(b))
                  ELSE <<>>]

HeaderInit ==
    /\ GatewayIdle
    /\ DataIdle
    /\ ReplayIdle
    /\ IpamIdle

HeaderCall(h, tail, cut, flip) ==
    /\ \E b \in {SetByte(SubSeq(AppendHeader(<<>>, h) \o tail, 1,
                               IF cut > HeaderLen + Len(tail)
                               THEN HeaderLen + Len(tail) ELSE cut),
                        flip, 88)} :
          sent' = <<[h |-> h, tail |-> tail,
                     whole |-> b = AppendHeader(<<>>, h) \o tail,
                     b |-> b, parsed |-> ParseBytes(b)]>>
    /\ UNCHANGED <<sender, wire, fed, tunWriteCh, recvOutcome, reasmVars, sendVars,
                   clientVars, replayVars, ipamVars, gatewayVars>>

HeaderNext ==
    \E h \in Headers, tail \in Tails, cut \in Cuts, flip \in Flips :
        HeaderCall(h, tail, cut, flip)

SpecHeader == HeaderInit /\ [][HeaderNext]_vars

\* C31: for a header with version 1, parsing the bytes written for it,
\* followed by any payload, gives the header back and exactly the payload;
\* parsing fails with "invalid datagram" on fewer than 22 bytes, else with
\* "invalid datagram magic" when the first three bytes are not QDT, else
\* with "unsupported datagram version" when the version byte is not 1.
C31_HeaderRoundTrip ==
    \A k \in 1 .. Len(sent) :
        LET c == sent[k]
        IN  /\ (c.whole /\ c.h.Version = 1) =>
                  /\ c.parsed.err = "nil"
                  /\ c.parsed.hdr = c.h
                  /\ c.parsed.rest = c.tail
            /\ Len(c.b) < 22 => c.parsed.err = "invalid datagram"
            /\ (Len(c.b) >= 22 /\ SubSeq(c.b, 1, 3) # <<81, 68, 84>>) =>
                  c.parsed.err = "invalid datagram magic"
            /\ (Len(c.b) >= 22 /\ SubSeq(c.b, 1, 3) = <<81, 68, 84>>
                /\ c.b[4] # 1) =>
                  c.parsed.err = "unsupported datagram version"
            /\ c.parsed.err = "nil" =>
                  (Len(c.b) >= 22 /\ SubSeq(c.b, 1, 3) = <<81, 68, 84>>
                   /\ c.b[4] = 1)

\* A header with large fields and a payload came back whole.
C31_Witness ==
    /\ sent # <<>>
    /\ sent[1].whole
    /\ sent[1].parsed.err = "nil"
    /\ sent[1].h.SessionID > 65535
    /\ sent[1].h.Counter > 65535
    /\ Len(sent[1].parsed.rest) = 4

\* The magic is refused on bytes whose version is not 1 either.
C31_WitnessOrder ==
    /\ sent # <<>>
    /\ sent[1].parsed.err = "invalid datagram magic"
    /\ sent[1].h.Version = 9
    /\ Len(sent[1].b) >= HeaderLen

(***************************************************************************)
(* Specification of the cipher states of the two ends: the key material is *)
(* derived from a token and the two handshake nonces, one end seals with   *)
(* its send state, the datagram travels whole or changed, and the other    *)
(* end opens it with a new receive state.  HKDF is a function that gives   *)
(* different output for different input; sent holds the last call.         *)
(***************************************************************************)
NoncePrefixSize == 4

\* The key material DeriveKeyMaterial cuts out of the HKDF output for
\* (token, clientNonce, serverNonce): two keys and two nonce prefixes.
KeyMaterial(token, clientNonce, serverNonce) ==
    [ClientKey |-> <<"out[0:32]", token, clientNonce, serverNonce>>,
     ServerKey |-> <<"out[32:64]", token, clientNonce, serverNonce>>,
     ClientNoncePrefix |-> <<"out[64:68]", token, clientNonce, serverNonce>>,
     ServerNoncePrefix |-> <<"out[68:72]", token, clientNonce, serverNonce>>]

NewCipherState(key, noncePrefix) == [key |-> key, noncePrefix |-> noncePrefix]

NewClientCipherStates(km) ==
    [send |-> NewCipherState(km.ClientKey, km.ClientNoncePrefix),
     recv |-> NewCipherState(km.ServerKey, km.ServerNoncePrefix)]

\* Server states that are not the mirror of the client's.
NewServerCipherStatesUnmirrored(km) ==
    [send |-> NewCipherState(km.ServerKey, km.ServerNoncePrefix),
     recv |-> NewCipherState(km.ClientKey, km.ServerNoncePrefix)]

NewServerCipherStates(km) ==
    [send |-> NewCipherState(km.ServerKey, km.ServerNoncePrefix),
     recv |-> NewCipherState(km.ClientKey, km.ClientNoncePrefix)]

HandshakeNonces ==
    {[i \in 1 .. HandshakeNonceSize |-> i - 1],
     [i \in 1 .. HandshakeNonceSize |-> 99 + i]}

\* What may happen to a sealed message on its way: a byte of the aad or of
\* the ciphertext is changed (no key opens a changed ciphertext), or it is
\* opened under another counter.
Tampers == {"none", "aad", "ciphertext", "counter"}

CipherInit ==
    /\ GatewayIdle
    /\ DataIdle
    /\ ReplayIdle
    /\ IpamIdle

\* The end from (client or server) seals pt, the other end opens.
SealOpen(token, cn, sn, from, counter, aad, pt, tamper) ==
    /\ DeriveKeyMaterial(token, Len(cn), Len(sn)) = "nil"
    /\ \E km \in {KeyMaterial(token, cn, sn)} :
       \E snd \in {IF from = "client" THEN NewClientCipherStates(km).send
                   ELSE NewServerCipherStates(km).send},
          rcv \in {IF from = "client" THEN NewServerCipherStates(km).recv
                   ELSE NewClientCipherStates(km).recv} :
       \E ct \in {Seal(snd, counter, aad, pt)} :
          sent' = <<[token |-> token, salt |-> cn \o sn, from |-> from,
                     counter |-> counter, aad |-> aad, pt |-> pt,
                     tamper |-> tamper,
                     opened |->
                        Open(rcv, NewReplayWindow(ReplaySize),
                             IF tamper = "counter"
                             THEN (counter + 1) % CounterModulus ELSE counter,
                             IF tamper = "aad" THEN aad \o "'" ELSE aad,
                             IF tamper = "ciphertext"
                             THEN [ct EXCEPT !.key = <<"no key">>] ELSE ct)]>>
    /\ UNCHANGED <<sender, wire, fed, tunWriteCh, recvOutcome, reasmVars, sendVars,
                   clientVars, replayVars, ipamVars, gatewayVars>>

CipherNext ==
    \E token \in {"secret", "token"}, cn \in HandshakeNonces,
       sn \in HandshakeNonces, from \in {"client", "server"},
       counter \in {0, 7, CounterModulus - 1}, aad \in {"", "header"},
       pt \in {<<>>, <<112, 97, 121>>}, tamper \in Tampers :
        SealOpen(token, cn, sn, from, counter, aad, pt, tamper)

SpecCipher == CipherInit /\ [][CipherNext]_vars

\* C32: with key material derived from a token and two 16-byte nonces, what
\* the client's send state seals under (aad, counter) the server's receive
\* state opens under the same (aad, counter) to the same plaintext, and so
\* from the server's send state to the client's receive state; Open fails
\* when the aad or the ciphertext is changed.
C32_SealOpenRoundTrip ==
    \A k \in 1 .. Len(sent) :
        /\ sent[k].tamper = "none" =>
              (sent[k].opened.err = "nil" /\ sent[k].opened.pt = sent[k].pt)
        /\ sent[k].tamper \in {"aad", "ciphertext"} =>
              (sent[k].opened.err = "auth" /\ sent[k].opened.pt = <<>>)

\* The server's message was opened by the client.
C32_Witness ==
    /\ sent # <<>>
    /\ sent[1].from = "server"
    /\ sent[1].tamper = "none"
    /\ sent[1].opened.err = "nil"
    /\ sent[1].opened.pt = <<112, 97, 121>>
    /\ sent[1].counter = CounterModulus - 1

\* A message with a changed byte was refused.
C32_WitnessTampered ==
    /\ sent # <<>>
    /\ sent[1].tamper = "ciphertext"
    /\ sent[1].opened.err = "auth"

(***************************************************************************)
(* The segments of an entry against the entry's buffer.                    *)
(***************************************************************************)
\* An entry of the table whose segments all lie in [0, total) and whose
\* received count is at most its total.
WithinEntry(state) ==
    /\ Len(state.buf) = state.total
    /\ state.received <= state.total
    /\ \A i \in 1 .. Len(state.segments) :
          /\ 0 <= state.segments[i].start
          /\ state.segments[i].end <= state.total

\* C33 as stated: whatever fragments are pushed, fragments that reuse an
\* id with another total included, Push never slices past the buffer of
\* the entry (no run-time panic), and every entry of the table keeps its
\* segments within [0, total) and its received count at most its total.
C33_PushWithinEntry ==
    /\ lastPush.err # "panic"
    /\ \A id \in DOMAIN reasm.frags : WithinEntry(reasm.frags[id])

\* What does hold: the entries that are in the table lie within their
\* totals; it is the Push call itself that faults.
EntriesWithinTotal ==
    \A id \in DOMAIN reasm.frags : WithinEntry(reasm.frags[id])

(***************************************************************************)
(* Specification of the session limit: the handshakes of SpecHandshake,    *)
(* every request a good one, over the address pool of a /29, so that the   *)
(* pool has an address for every handshake.                                *)
(***************************************************************************)
LimitInit ==
    /\ HandshakeStart
    /\ pool = New(PoolNetwork, PoolPrefixLen, {GatewayIP}).pool

LimitNext ==
    \/ LimiterTick
    \/ \E h \in Handshakes :
          \/ \E a \in Hosts : HsRequest(h, TRUE, [GoodRequest EXCEPT !.host = a])
          \/ HsHost(h)
          \/ HsBody(h)
          \/ HsAcquire(h)
          \/ HsNegotiate(h)
          \/ HsSessionEnd(h)
          \/ HsReturn(h)
          \/ HsNext(h)

SpecLimit == LimitInit /\ [][LimitNext]_vars

(***************************************************************************)
(* The session limit.                                                      *)
(***************************************************************************)
\* C34 as stated: with max_sessions > 0 the count of active sessions, and
\* with it the number of sessions in the table, is never above
\* max_sessions, also when several handshakes are between the limit check
\* and addSession at once.
C34_SessionsWithinLimit ==
    cfg.MaxSessions > 0 =>
        /\ activeSessions <= cfg.MaxSessions
        /\ Cardinality(RegisteredIn(shards)) <= cfg.MaxSessions

\* What does hold: a handshake passes the limit check only while the
\* count is below the limit, so the count stays within the limit plus the
\* handshakes that can be past the check at once.
SessionsWithinLimitAndHandshakes ==
    cfg.MaxSessions > 0 =>
        activeSessions <= cfg.MaxSessions + Cardinality(Handshakes) - 1

(***************************************************************************)
(* The session table against the address pool.                             *)
(***************************************************************************)
\* The session registered under the address ip is s.
RegisteredAt(ip, s) == GetByIP(shards, ip) = s

\* C35: every session in the session table is registered under its own
\* address and that address is in the pool's used set (acquired before the
\* session is added, released only after it is removed); and the session
\* whose close callback is about to remove its address from the table is
\* the session registered under it, never a newer one that holds the same
\* address.
C35_TableWithinPool ==
    /\ \A i \in DOMAIN shards : \A ip \in DOMAIN shards[i] :
          /\ ip \in pool.used
          /\ sess[shards[i][ip]].ip4 = ip
    /\ \A s \in Handshakes :
          sess[s].step = "remove" => RegisteredAt(sess[s].ip4, s)

\* A session is registered under the address that an earlier session,
\* closed by now, had held.
C35_Witness ==
    \E s \in Handshakes, t \in Handshakes :
        /\ s # t
        /\ sess[s].closeOnce = "done"
        /\ sess[s].ip4 = sess[t].ip4
        /\ sess[t].closeOnce = "new"
        /\ RegisteredAt(sess[t].ip4, t)
        /\ sess[t].ip4 \in pool.used

(***************************************************************************)
(* Specification of Open called from several goroutines on one receive     *)
(* cipher state.  Check and Mark each hold the window's mutex for the      *)
(* length of the call, so each is one step; Open holds no lock between     *)
(* them.  lastOpen is here the calls under way: per goroutine its          *)
(* position, its arguments and its result.                                 *)
(***************************************************************************)
OpenCallers == 1 .. 2
MaxAccepts == 2
ConcurrentCounters == {0, 1, ReplaySize}

NoOpen == [pc |-> "idle", counter |-> 0, valid |-> FALSE, err |-> "none"]

ConcurrentInit ==
    /\ recvWin = NewReplayWindow(ReplaySize)
    /\ accepts = [c \in ConcurrentCounters |-> 0]
    /\ lastOpen = [g \in OpenCallers |-> NoOpen]
    /\ DataIdle
    /\ IpamIdle
    /\ GatewayIdle

\* Open is called: replay.Check(counter), and with its leave aead.Open
OpenCheck(g, counter, ciphertext) ==
    /\ lastOpen[g].pc = "idle"
    /\ \A c \in ConcurrentCounters : accepts[c] < MaxAccepts
    /\ \E valid \in {AeadOpen(ServerRecv, counter, "hdr", ciphertext)} :
          lastOpen' = [lastOpen EXCEPT ![g] =
                         [pc |-> IF Check(recvWin, counter) /\ valid
                                 THEN "mark" ELSE "done",
                          counter |-> counter, valid |-> valid,
                          err |-> IF ~Check(recvWin, counter) THEN "replay"
                                  ELSE IF ~valid THEN "auth" ELSE "none"]]
    /\ UNCHANGED <<recvWin, accepts, dataVars, ipamVars, gatewayVars>>

\* replay.Mark(counter) and the return of the plaintext
OpenMark(g) ==
    /\ lastOpen[g].pc = "mark"
    /\ recvWin' = Mark(recvWin, lastOpen[g].counter)
    /\ accepts' = [accepts EXCEPT ![lastOpen[g].counter] = @ + 1]
    /\ lastOpen' = [lastOpen EXCEPT ![g].pc = "done", ![g].err = "nil"]
    /\ UNCHANGED <<dataVars, ipamVars, gatewayVars>>

\* The caller has its result and may call again.
OpenReturn(g) ==
    /\ lastOpen[g].pc = "done"
    /\ lastOpen' = [lastOpen EXCEPT ![g] = NoOpen]
    /\ UNCHANGED <<recvWin, accepts, dataVars, ipamVars, gatewayVars>>

ConcurrentNext ==
    \E g \in OpenCallers :
        \/ \E counter \in ConcurrentCounters :
              \E ciphertext \in Ciphertexts(counter) :
                  OpenCheck(g, counter, ciphertext)
        \/ OpenMark(g)
        \/ OpenReturn(g)

SpecOpen == ConcurrentInit /\ [][ConcurrentNext]_vars

\* C36 as stated: of the Open calls made with one counter and its valid
\* ciphertext on one receive state, concurrent ones included, at most one
\* returns the plaintext.
C36_ConcurrentOpenOnce ==
    \A c \in ConcurrentCounters : accepts[c] <= 1


(***************************************************************************)
(* The packet buffers under fair scheduling: the encode worker and         *)
(* tunWriteLoop are goroutines that take their next step when they can.    *)
(***************************************************************************)
BuffersFairness ==
    /\ WF_vars(BufEncode \/ BufEncodeExit)
    /\ WF_vars(BufTunWrite)

SpecBuffersFair == SpecBuffers /\ BuffersFairness

\* C37 as stated: a buffer that Enqueue accepted into sendCh is in the end
\* taken by the encode worker and returned to the packet pool, also when
\* the session is closed while it is queued.
C37_QueuedIsReturned ==
    \A b \in PacketBuffers : (Queued(sendCh, b) > 0) ~> (packetPool[b] > 0)

\* What does hold: while the encode worker runs, the buffer at the head of
\* sendCh is its next one, and a buffer passed to tunWriteCh is returned.
WrittenIsReturned ==
    \A b \in PacketBuffers : (Queued(tunWriteCh, b) > 0) ~> (packetPool[b] > 0)

(***************************************************************************)
(* Specification of a session's lastSeen: the rounds of recvLoop on the    *)
(* datagrams of the peer, the packets sent by processEncode, the clock and *)
(* the idle sweep.  The clock counts the ticks of the sweep.               *)
(***************************************************************************)
SeenMaxTime == 2

seenRest == <<replayVars, held, lastPool, hs, loops, sweep, hist, reasmVars,
              tunnelVars, queueVars, pump, loopCtl, packetPool, hsLimit, cfg>>

\* The session's lastSeen after s.lastSeen.Store(time.Now()) at time t
Stored(t) == [sess EXCEPT ![TunnelSession].lastSeen = t]

SeenTick ==
    /\ now < SeenMaxTime
    /\ now' = now + 1
    /\ UNCHANGED <<sess, lastRound, closedVars, shards, pool, activeSessions,
                   seenRest>>

\* A recvLoop that stores lastSeen on every round.
RecvStoresAlways(allowed, path) == TRUE

\* recvLoop reaches s.lastSeen.Store when the limiter let the datagram in
\* and none of the drops before the select on tunWriteCh ended the round.
RecvStores(allowed, path) == allowed /\ path.outcome = "select"

\* One round of recvLoop on a received datagram: the limiter allows it or
\* not, DecodeDatagramInto returns dec, the packet's source is src, and
\* tunWriteCh has room or not.
SeenRecv(allowed, dec, src) ==
    /\ ~sendClosed
    /\ \E path \in {RecvPath(dec, src)} :
       \E outcome \in IF ~allowed THEN {"rate_in"}
                      ELSE IF path.outcome = "select"
                      THEN {"in", "tun_backpressure"}
                      ELSE {path.outcome} :
          /\ sess' = IF RecvStores(allowed, path) THEN Stored(now) ELSE sess
          /\ lastRound' = [loop |-> "recv", allowed |-> allowed, dec |-> dec,
                           src |-> src, outcome |-> outcome]
    /\ UNCHANGED <<now, closedVars, shards, pool, activeSessions, seenRest>>

\* processEncode has sent a packet to the peer
SeenEncode ==
    /\ ~sendClosed
    /\ sess' = Stored(now)
    /\ lastRound' = [loop |-> "encode", outcome |-> "sent"]
    /\ UNCHANGED <<now, closedVars, shards, pool, activeSessions, seenRest>>

\* sessionSweepLoop finds the session idle too long and closes it
SeenSweep ==
    /\ ~sendClosed
    /\ IdleTooLong(now, sess[TunnelSession].lastSeen)
    /\ CloseAndUnregister("idle timeout")
    /\ UNCHANGED <<now, sess, lastRound, seenRest>>

SeenNext ==
    \/ SeenTick
    \/ \E allowed \in BOOLEAN, dec \in DecodeResults,
          src \in {"bad", "other", "mine"} : SeenRecv(allowed, dec, src)
    \/ SeenEncode
    \/ SeenSweep

SpecSeen == BuffersInit /\ [][SeenNext]_vars

\* The round r of recvLoop was on a datagram that the limiter let in, that
\* decoded without error to a packet that is not empty, and whose source
\* is the session's address.
GoodDatagram(r) ==
    /\ r.allowed
    /\ r.dec.err = "nil"
    /\ r.dec.size # "none"
    /\ r.src = "mine"

\* C38: a round of recvLoop on a datagram that is replayed, forged or
\* undecodable, rate-limited, empty or from another source leaves lastSeen
\* as it was, so a session that was idle too long before the round is idle
\* too long after it and the sweep closes it.
C38_DropsKeepLastSeen ==
    [][(lastRound'.loop = "recv" /\ ~GoodDatagram(lastRound')) =>
          /\ sess' = sess
          /\ IdleTooLong(now, sess[TunnelSession].lastSeen) =>
                IdleTooLong(now', sess'[TunnelSession].lastSeen)]_vars

\* A replayed datagram has been dropped on a session that is idle too
\* long and is still open.
C38_Witness ==
    /\ lastRound.loop = "recv"
    /\ lastRound.dec.err = "replay"
    /\ lastRound.allowed
    /\ IdleTooLong(now, sess[TunnelSession].lastSeen)
    /\ ~sendClosed

\* A good datagram has refreshed lastSeen after the clock moved on.
C38_WitnessRefreshed ==
    /\ lastRound.loop = "recv"
    /\ GoodDatagram(lastRound)
    /\ now > 0
    /\ sess[TunnelSession].lastSeen = now

(***************************************************************************)
(* Specification of New on its own: New(cidr, reserve) for the CIDRs of    *)
(* the prefix lengths 32 - CidrHostBits to 32 around the pool's network.        *)
(* lastPool is the call and its result.                                    *)
(***************************************************************************)
CidrHostBits == 6
CidrAddresses == {PoolNetwork + k : k \in {0, 1, 2, 3, 4, 7, 8, 15}}
CidrReserves == {{}, {GatewayIP}}

CidrInit ==
    /\ DataIdle
    /\ ReplayIdle
    /\ IpamIdle
    /\ GatewayIdle

NewCall(ip, prefixLen, reserve) ==
    /\ \E r \in {New(ip, prefixLen, reserve)} :
          /\ pool' = IF r.err = "nil" THEN r.pool ELSE pool
          /\ lastPool' = [op |-> "new", err |-> r.err, ip |-> ip,
                          prefixLen |-> prefixLen, reserve |-> reserve]
    /\ UNCHANGED <<held, dataVars, replayVars, gatewayVars>>

CidrNext ==
    \E ip \in CidrAddresses, prefixLen \in (32 - CidrHostBits) .. 32,
       reserve \in CidrReserves : NewCall(ip, prefixLen, reserve)

SpecCidr == CidrInit /\ [][CidrNext]_vars

\* The addresses of ip/prefixLen between its network address and its
\* broadcast address, both left out.
UsableRange(ip, prefixLen) ==
    {a \in (ip - Pow2(CidrHostBits)) .. (ip + Pow2(CidrHostBits)) :
        /\ a \div Pow2(32 - prefixLen) = ip \div Pow2(32 - prefixLen)
        /\ a % Pow2(32 - prefixLen) # 0
        /\ a % Pow2(32 - prefixLen) # Pow2(32 - prefixLen) - 1}

\* C39 as stated: New refuses the CIDRs whose usable range
\* [network+1, broadcast-1] has fewer than 3 addresses and accepts those
\* whose usable range has 3 addresses or more.
C39_NewRequiresThreeUsable ==
    lastPool.op = "new" =>
        (lastPool.err = "cidr too small"
            <=> Cardinality(UsableRange(lastPool.ip, lastPool.prefixLen)) < 3)

\* What does hold: New refuses the CIDRs of fewer than 4 addresses (/31 and
\* /32) and accepts the others, so a /30 with its 2 usable addresses is
\* accepted.
NewRequiresFourAddresses ==
    lastPool.op = "new" =>
        /\ lastPool.err = "cidr too small" <=> lastPool.prefixLen > 30
        /\ lastPool.err = "nil" =>
              /\ Cardinality(UsableRange(lastPool.ip, lastPool.prefixLen)) >= 2
              /\ UsableRange(lastPool.ip, lastPool.prefixLen) = pool.base .. pool.max

(***************************************************************************)
(* The counters above the window's max.                                    *)
(***************************************************************************)
\* C40 as stated: on an initialized window Check accepts every counter
\* above max, those whose sum with W is past the end of the counter range
\* included.
C40_AboveMaxAccepted ==
    recvWin.initialized =>
        \A c \in Counters : c > recvWin.max => Check(recvWin, c)

\* What does hold: Check accepts the counters above max whose sum with W
\* is inside the counter range, and those past it whose wrapped sum is
\* above max.
AboveMaxAcceptedBelowWrap ==
    recvWin.initialized =>
        \A c \in Counters :
            (c > recvWin.max
                /\ (c + recvWin.size < CounterModulus
                       \/ c + recvWin.size - CounterModulus > recvWin.max))
                => Check(recvWin, c)
====
